---------------------------- MODULE Spec2Model ----------------------------
(***************************************************************************)
(* A model of Gutenberger.py: the ebook catalog pipeline                   *)
(* (process_category / write_csv with its incremental cache), the archive  *)
(* inspector, the metadata matcher and the readability scorer.             *)
(*                                                                         *)
(* Text is modelled by TLA+ strings; a Python value is a tagged record     *)
(* (PyNone, PyStr, PyBool, PyInt, PyFloat) so that None, '' and 0 stay     *)
(* distinct, as they do in the program.                                    *)
(***************************************************************************)
EXTENDS Integers, Sequences, FiniteSets, TLC

VARIABLES
    m_pc, m_in, m_out,           \* metadata matcher: position, call arguments, returned dict
    b_pc, b_in, b_out,           \* grade_to_cefr: position, the grades passed, the bands returned
    d_in, d_out,                 \* readability scorer: the calls to make, the dicts returned so far
    i_in, i_meta, i_text,        \* archive inspector: the archive, what the two extractors did
    p_books,                     \* pipeline: the books of the configuration file
    p_textstat,                  \* TEXTSTAT_AVAILABLE
    p_disk,                      \* the category folder: filename -> file
    p_csv, p_origin,             \* catalog.csv, and who wrote it last
    p_pc, p_runs,                \* where the program is, and the runs started so far
    p_force, p_cache,            \* process_category: force, cache
    p_results,                   \*   results
    p_log,                       \*   what the loop did for each book so far
    p_prior,                     \* catalog.csv as the current run found it, and who wrote it
    p_dl                         \* the loop between its call of download_book and the end
                                 \*   of its sleep: the call and the requests of it that
                                 \*   were answered, then the result and the URLs requested

matchVars == <<m_pc, m_in, m_out>>
bandVars == <<b_pc, b_in, b_out>>
scoreVars == <<d_in, d_out>>
inspectVars == <<i_in, i_meta, i_text>>
pipelineVars ==
    <<p_books, p_textstat, p_disk, p_csv, p_origin, p_pc, p_runs, p_force, p_cache,
      p_results, p_log, p_prior, p_dl>>
vars ==
    <<m_pc, m_in, m_out, b_pc, b_in, b_out, d_in, d_out, i_in, i_meta, i_text,
      p_books, p_textstat, p_disk, p_csv, p_origin, p_pc, p_runs, p_force, p_cache,
      p_results, p_log, p_prior, p_dl>>

-----------------------------------------------------------------------------
(* Bounds of the model *)

\* Longest expected/actual title or author fed to the matcher, in tokens.
MaxWords == 3

\* Most sentence terminator runs of a text given to the scorer.
MaxSentences == 2

\* The characters kept of each end of a chunk of text: no fewer than the
\* longest pattern the program looks for, a keyword of 15 characters, and one
\* character next to it.
EdgeLen == 16

\* Most syllables a text given to the scorer has beyond one per word.
MaxExtraSyllables == 3

\* Most documents of an archive given to the inspector, beside its manifest
\* and its container.xml.
MaxDocs == 3

-----------------------------------------------------------------------------
(* Python values *)

PyNone == [t |-> "None"]
PyStr(s) == [t |-> "str", v |-> s]
PyBool(b) == [t |-> "bool", v |-> b]
PyInt(i) == [t |-> "int", v |-> i]
\* A float is the rational n/d (d > 0) it approximates, with the sign e of its
\* representation error: the binary result of an arithmetic expression lies a
\* rounding error above (e = 1) or below (e = -1) the exact value, or on it.
PyFloat(n, d, e) == [t |-> "float", n |-> n, d |-> d, e |-> e]
\* The float nearest to a number of tenths (what round(x, 1) returns).
Tenths(k) == PyFloat(k, 10, 0)
\* The floats that are no rational number: the infinities, nan, and the zero
\* with the sign set. For Python -0.0 == 0 and bool(-0.0) is False, so n is 0.
PyInf(negative) == [t |-> "float", special |-> IF negative THEN "-inf" ELSE "inf"]
PyNaN == [t |-> "float", special |-> "nan"]
NegZero == [t |-> "float", n |-> 0, d |-> 10, e |-> 0, special |-> "-0.0"]

\* Python truthiness of the values the program tests with `not x` / `if x`.
Truthy(x) ==
    CASE x.t = "None" -> FALSE
      [] x.t = "str" -> x.v # ""
      [] x.t = "bool" -> x.v
      [] x.t = "int" -> x.v # 0
      [] x.t = "float" -> "n" \in DOMAIN x => x.n # 0
      [] x.t = "list" -> x.v # <<>>
      [] OTHER -> TRUE

-----------------------------------------------------------------------------
(* Characters and strings *)

\* The alphabet of the model: ASCII and the letters of Latin-1, which the
\* French, German and Spanish titles and authors of the program's books are
\* written in. An upper case letter stands at the position of its lower case
\* letter.
LowerChars == "abcdefghijklmnopqrstuvwxyzàáâãäåæçèéêëìíîïðñòóôõöøùúûüýþ"
UpperChars == "ABCDEFGHIJKLMNOPQRSTUVWXYZÀÁÂÃÄÅÆÇÈÉÊËÌÍÎÏÐÑÒÓÔÕÖØÙÚÛÜÝÞ"
DigitChars == "0123456789"
\* Characters that str.isalnum() accepts, hence \w too, and that str.lower()
\* leaves as they are.
CaselessWordChars == "ßÿªºµ²³¹¼½¾"
\* The control characters U+000B (vertical tab), U+001C to U+001F (the
\* separators FS, GS, RS, US) and U+0085 (next line), in this order.
ControlSpaces == ""
\* Whitespace of str.split() and str.strip(), and of the regex class
\* \s of a str pattern: str.isspace() among the characters up to U+00FF.
SpaceChars ==
    {" ", "\t", "\n", "\r", "\f", " "}
        \cup {SubSeq(ControlSpaces, i, i) : i \in 1..Len(ControlSpaces)}

Char(s, i) == SubSeq(s, i, i)

\* Position of character c in string s, 0 when absent.
IndexOf(c, s) ==
    IF \E i \in 1..Len(s) : Char(s, i) = c
    THEN CHOOSE i \in 1..Len(s) : Char(s, i) = c /\ \A j \in 1..(i - 1) : Char(s, j) # c
    ELSE 0

\* str.lower() on one character.
LowerChar(c) ==
    IF IndexOf(c, UpperChars) > 0 THEN Char(LowerChars, IndexOf(c, UpperChars)) ELSE c

RECURSIVE Lower(_)
Lower(s) == IF s = "" THEN "" ELSE LowerChar(Head(s)) \o Lower(Tail(s))

\* The regex class \w of a str pattern (the Unicode one): letters, digits and
\* the underscore.
IsWordChar(c) ==
    IndexOf(c, LowerChars) > 0 \/ IndexOf(c, UpperChars) > 0
        \/ IndexOf(c, DigitChars) > 0 \/ IndexOf(c, CaselessWordChars) > 0 \/ c = "_"

\* The regex class \s, and the separators of str.split().
IsSpace(c) == c \in SpaceChars

\* re.sub(r'[^\w\s]', '', s)
RECURSIVE StripPunct(_)
StripPunct(s) ==
    IF s = "" THEN ""
    ELSE IF IsWordChar(Head(s)) \/ IsSpace(Head(s))
         THEN Head(s) \o StripPunct(Tail(s))
         ELSE StripPunct(Tail(s))

\* str.split(): the maximal runs of non-whitespace, in order.
RECURSIVE SplitFrom(_, _)
SplitFrom(s, cur) ==
    IF s = "" THEN (IF cur = "" THEN <<>> ELSE <<cur>>)
    ELSE IF IsSpace(Head(s))
         THEN (IF cur = "" THEN <<>> ELSE <<cur>>) \o SplitFrom(Tail(s), "")
         ELSE SplitFrom(Tail(s), cur \o Head(s))

Split(s) == SplitFrom(s, "")

\* ' '.join(parts)
RECURSIVE JoinSpace(_)
JoinSpace(parts) ==
    IF parts = <<>> THEN ""
    ELSE IF Len(parts) = 1 THEN parts[1]
    ELSE parts[1] \o " " \o JoinSpace(Tail(parts))

\* Python's `a in b` on strings.
IsSubstr(a, b) ==
    \E i \in 1..(Len(b) - Len(a) + 1) : SubSeq(b, i, i + Len(a) - 1) = a

Range(f) == {f[i] : i \in DOMAIN f}

Min(a, b) == IF a <= b THEN a ELSE b

-----------------------------------------------------------------------------
(* Metadata matcher: verify_metadata *)

\* The nested normalize(s) of verify_metadata; s is a Python value.
normalize(s) ==
    IF ~Truthy(s) THEN "" ELSE JoinSpace(Split(StripPunct(Lower(s.v))))

\* The title check of verify_metadata on the two normalized titles.
TitleCheck(expected_title_norm, actual_title_norm) ==
    /\ expected_title_norm # ""
    /\ actual_title_norm # ""
    /\ LET expected_words == Range(Split(expected_title_norm))
           actual_words == Range(Split(actual_title_norm))
           common == expected_words \cap actual_words
       IN Cardinality(common) >= Min(2, Cardinality(expected_words))

\* The mutant compares token lengths with >= 2 instead of > 2.
AuthorCheckShortTokens(expected_author_norm, actual_author_norm) ==
    /\ expected_author_norm # ""
    /\ actual_author_norm # ""
    /\ \E i \in DOMAIN Split(expected_author_norm), j \in DOMAIN Split(actual_author_norm) :
           LET ep == Split(expected_author_norm)[i]
               ap == Split(actual_author_norm)[j]
           IN Len(ep) >= 2 /\ Len(ap) >= 2 /\ (IsSubstr(ep, ap) \/ IsSubstr(ap, ep))

\* The author check of verify_metadata: the two nested loops set the flag as
\* soon as one pair qualifies (the break leaves only the inner loop, and the
\* flag is never reset).
AuthorCheck(expected_author_norm, actual_author_norm) ==
    /\ expected_author_norm # ""
    /\ actual_author_norm # ""
    /\ LET expected_parts == Split(expected_author_norm)
           actual_parts == Split(actual_author_norm)
       IN \E i \in DOMAIN expected_parts :
             /\ Len(expected_parts[i]) > 2
             /\ \E j \in DOMAIN actual_parts :
                   /\ Len(actual_parts[j]) > 2
                   /\ \/ IsSubstr(expected_parts[i], actual_parts[j])
                      \/ IsSubstr(actual_parts[j], expected_parts[i])

\* The mutant drops the guard on the normalized titles being non-empty.
verify_title_unguarded(expected_title, actual_metadata) ==
    /\ Truthy(actual_metadata.title)
    /\ Truthy(actual_metadata.author)
    /\ LET expected_words == Range(Split(normalize(expected_title)))
           actual_words == Range(Split(normalize(actual_metadata.title)))
       IN Cardinality(expected_words \cap actual_words)
              >= Min(2, Cardinality(expected_words))

\* result['title_match'] of verify_metadata.
verify_title(expected_title, actual_metadata) ==
    /\ Truthy(actual_metadata.title)
    /\ Truthy(actual_metadata.author)
    /\ TitleCheck(normalize(expected_title), normalize(actual_metadata.title))

\* result['author_match'] of verify_metadata.
verify_author(expected_author, actual_metadata) ==
    /\ Truthy(actual_metadata.title)
    /\ Truthy(actual_metadata.author)
    /\ AuthorCheck(normalize(expected_author), normalize(actual_metadata.author))

\* verify_metadata(expected_title, expected_author, actual_metadata)
verify_metadata(expected_title, expected_author, actual_metadata) ==
    [title_match |-> verify_title(expected_title, actual_metadata),
     author_match |-> verify_author(expected_author, actual_metadata),
     actual_title |-> actual_metadata.title,
     actual_author |-> actual_metadata.author]

-----------------------------------------------------------------------------
(* Readability scorer: grade_to_cefr, detect_language,                     *)
(* calculate_reading_difficulty                                            *)

\* x <= k for a Python number x and an integer literal k.
NumLe(x, k) ==
    IF x.t = "int" THEN x.v <= k
    ELSE x.n < k * x.d \/ (x.n = k * x.d /\ x.e <= 0)

\* x > k for a Python number x and an integer literal k.
NumGt(x, k) == ~NumLe(x, k)

\* x < k for a Python number x and an integer literal k, as the mutant below
\* compares.
NumLt(x, k) ==
    IF x.t = "int" THEN x.v < k
    ELSE x.n < k * x.d \/ (x.n = k * x.d /\ x.e < 0)

\* The mutant excludes the upper bound of each band (< for <=).
grade_to_cefr_exclusive(grade_level) ==
    IF grade_level = PyNone THEN PyNone
    ELSE IF NumLt(grade_level, 4) THEN PyStr("A1")
    ELSE IF NumLt(grade_level, 6) THEN PyStr("A2")
    ELSE IF NumLt(grade_level, 8) THEN PyStr("B1")
    ELSE IF NumLt(grade_level, 10) THEN PyStr("B2")
    ELSE IF NumLt(grade_level, 13) THEN PyStr("C1")
    ELSE PyStr("C2")

\* grade_to_cefr(grade_level)
grade_to_cefr(grade_level) ==
    IF grade_level = PyNone THEN PyNone
    ELSE IF NumLe(grade_level, 4) THEN PyStr("A1")
    ELSE IF NumLe(grade_level, 6) THEN PyStr("A2")
    ELSE IF NumLe(grade_level, 8) THEN PyStr("B1")
    ELSE IF NumLe(grade_level, 10) THEN PyStr("B2")
    ELSE IF NumLe(grade_level, 13) THEN PyStr("C1")
    ELSE PyStr("C2")

\* round(x, 1) of a float: the nearest tenth, an exact tie going to the side
\* the representation error lies on, and to the even tenth when there is none;
\* a negative x that rounds to zero gives the zero with the sign set, -0.0.
Round1(x) ==
    LET q == (10 * x.n) \div x.d
        r == (10 * x.n) % x.d
        tenths == IF 2 * r < x.d THEN q
                  ELSE IF 2 * r > x.d THEN q + 1
                  ELSE IF x.e > 0 THEN q + 1
                  ELSE IF x.e < 0 THEN q
                  ELSE IF q % 2 = 0 THEN q ELSE q + 1
    IN IF tenths = 0 /\ x.n < 0 THEN NegZero ELSE Tenths(tenths)

\* round(max(0, grade_level), 1): max keeps its first argument, the int 0,
\* unless grade_level is greater, and round of an int is an int.
RoundClamped(grade_level) ==
    IF NumGt(grade_level, 0) THEN Round1(grade_level) ELSE PyInt(0)

\* lang_markers of detect_language, in the order of the dict.
LangOrder == <<"de", "es", "fr", "en">>
LangMarkers ==
    [de |-> <<"der", "die", "das", "und", "ist", "nicht", "sie", "ich", "ein", "eine">>,
     es |-> <<"el", "la", "los", "las", "que", "de", "en", "es", "por", "con">>,
     fr |-> <<"le", "la", "les", "des", "est", "sont", "nous", "vous", "pas", "qui">>,
     en |-> <<"the", "and", "is", "are", "was", "were", "have", "has", "been", "will">>]

\* A text is a sequence of chunks, its value the concatenation of theirs.  A
\* chunk is a piece of text that is either the separator ' ' alone or free of
\* leading and trailing whitespace, known by what the analysis measures of it:
\*   id       which piece of which document it is
\*   len      its number of characters
\*   terms    the number of runs of . ! ? in it once cleaned
\*   words    the number of whitespace-separated words of it once cleaned
\*   rawwords the number of whitespace-separated words of it as it is
\*   syll     the sum of count_syllables over its cleaned words
\*   occ      word -> number of occurrences of ' word ' in its lowercased form
\*   kw       keyword -> number of matches of \bkeyword\b in its lowercased form
\*   head     the first EdgeLen characters of its lowercased form (all of it
\*            when it has no more)
\*   tail     the last EdgeLen characters of its lowercased form (all of it
\*            when it has no more)
SpaceChunk ==
    [id |-> " ", len |-> 1, terms |-> 0, words |-> 0, rawwords |-> 0, syll |-> 0,
     occ |-> <<>>, kw |-> <<>>, head |-> " ", tail |-> " "]

\* The string c, n times.
RECURSIVE Filler(_, _)
Filler(c, n) == IF n <= 0 THEN "" ELSE c \o Filler(c, n - 1)

\* The head and the tail of a chunk of len characters that begins and ends
\* with EdgeLen characters c or, when shorter, holds nothing else.
Edge(c, len) == Filler(c, IF len <= EdgeLen THEN len ELSE EdgeLen)

RECURSIVE TextSum(_, _)
TextSum(text, field) ==
    IF text = <<>> THEN 0 ELSE Head(text)[field] + TextSum(Tail(text), field)

\* len(text)
TextLen(text) == TextSum(text, "len")

\* The occurrences that lie within one chunk.
RECURSIVE WithinChunks(_, _, _)
WithinChunks(text, field, w) ==
    IF text = <<>> THEN 0
    ELSE (IF w \in DOMAIN Head(text)[field] THEN Head(text)[field][w] ELSE 0)
             + WithinChunks(Tail(text), field, w)

\* What of a chunk an occurrence that reaches beyond it can touch: all of it
\* when it has at most EdgeLen characters, else its first and its last
\* EdgeLen characters around a character that no pattern holds.
ChunkFrame(chunk) ==
    IF chunk.len <= EdgeLen THEN chunk.head ELSE chunk.head \o "|" \o chunk.tail

RECURSIVE TextFrame(_)
TextFrame(text) ==
    IF text = <<>> THEN "" ELSE ChunkFrame(Head(text)) \o TextFrame(Tail(text))

\* The positions of TextFrame(text) at which a chunk begins, offset being
\* the characters before the text.
RECURSIVE ChunkStarts(_, _)
ChunkStarts(text, offset) ==
    IF text = <<>> THEN {}
    ELSE {offset + 1}
             \cup ChunkStarts(Tail(text), offset + Len(ChunkFrame(Head(text))))

\* The pattern occurs in s at position p; when bounded, as \bpattern\b does
\* for a pattern that begins and ends with a word character.
MatchesAt(s, pattern, bounded, p) ==
    /\ p >= 1 /\ p + Len(pattern) - 1 <= Len(s)
    /\ SubSeq(s, p, p + Len(pattern) - 1) = pattern
    /\ bounded =>
          /\ p = 1 \/ ~IsWordChar(Char(s, p - 1))
          /\ p + Len(pattern) - 1 = Len(s) \/ ~IsWordChar(Char(s, p + Len(pattern)))

\* The occurrences in s, none of the patterns of the program overlapping with
\* itself when bounded.
Matches(s, pattern, bounded) ==
    Cardinality({p \in 1..Len(s) : MatchesAt(s, pattern, bounded, p)})

\* The occurrences in the text that lie in more than one chunk: across the
\* separators of a join.
CrossMatches(text, pattern, bounded) ==
    IF Len(text) < 2 \/ Len(pattern) > EdgeLen THEN 0
    ELSE LET s == TextFrame(text)
             starts == ChunkStarts(text, 0)
         IN Cardinality({p \in 1..Len(s) :
                /\ MatchesAt(s, pattern, bounded, p)
                /\ \E q \in starts : p < q /\ q <= p + Len(pattern) - 1})

\* The occurrences in the whole text: of ' w ' for a marker word w, of
\* \bw\b for a keyword w.
TextCount(text, field, w) ==
    WithinChunks(text, field, w)
        + (IF field = "occ" THEN CrossMatches(text, " " \o w \o " ", FALSE)
           ELSE CrossMatches(text, w, TRUE))

\* The places of text_lower where ' w ' begins: `' w ' in text_lower` holds
\* when there is one.
Occ(text, w) == TextCount(text, "occ", w)

\* separator.join(parts) for the separator ' ' and a list of texts.
RECURSIVE JoinTexts(_)
JoinTexts(parts) ==
    IF parts = <<>> THEN <<>>
    ELSE IF Len(parts) = 1 THEN parts[1]
    ELSE parts[1] \o <<SpaceChunk>> \o JoinTexts(Tail(parts))

\* scores[lang] of detect_language: the marker words that occur at all.
LangScore(text, lang) ==
    Cardinality({i \in DOMAIN LangMarkers[lang] : Occ(text, LangMarkers[lang][i]) > 0})

\* The sum of the occurrences of the marker words of a list.
RECURSIVE OccSum(_, _)
OccSum(text, words) ==
    IF words = <<>> THEN 0 ELSE Occ(text, Head(words)) + OccSum(text, Tail(words))

\* The mutant scores a language by the occurrences of its marker words
\* (text_lower.count for `in`).
detect_language_by_occurrences(text) ==
    LET best == CHOOSE i \in DOMAIN LangOrder :
                    /\ \A j \in DOMAIN LangOrder :
                           OccSum(text, LangMarkers[LangOrder[j]])
                               <= OccSum(text, LangMarkers[LangOrder[i]])
                    /\ \A j \in 1..(i - 1) :
                           OccSum(text, LangMarkers[LangOrder[j]])
                               < OccSum(text, LangMarkers[LangOrder[i]])
    IN LangOrder[best]

\* detect_language(text): max(scores, key=scores.get) returns the first
\* language of the dict that has the highest score.
detect_language(text) ==
    LET best == CHOOSE i \in DOMAIN LangOrder :
                    /\ \A j \in DOMAIN LangOrder :
                           LangScore(text, LangOrder[j]) <= LangScore(text, LangOrder[i])
                    /\ \A j \in 1..(i - 1) :
                           LangScore(text, LangOrder[j]) < LangScore(text, LangOrder[i])
    IN LangOrder[best]

\* The mutant divides the word count by the syllable count.
ManualGradeSwapped(sentences, word_count, syllable_count, e) ==
    PyFloat(39 * word_count * syllable_count + 1180 * word_count * sentences
                - 1559 * sentences * syllable_count,
            100 * sentences * syllable_count, e)

\* grade_level = 0.39 * (word_count / sentences)
\*                 + 11.8 * (syllable_count / word_count) - 15.59
\* as the exact rational, e being the side the float result lies on.
ManualGrade(sentences, word_count, syllable_count, e) ==
    PyFloat(39 * word_count * word_count + 1180 * syllable_count * sentences
                - 1559 * sentences * word_count,
            100 * sentences * word_count, e)

\* What the textstat tier does: it is not there (TEXTSTAT_AVAILABLE is False),
\* it raises, or textstat.flesch_kincaid_grade returns a float.
TextstatUnavailable == [t |-> "unavailable"]
TextstatRaises == [t |-> "raises"]

\* The mutant takes a text of exactly 100 characters for too short (<= for <).
calculate_reading_difficulty_len_inclusive(text, lang, ts) ==
    IF TextLen(text) <= 100
    THEN {[grade_level |-> PyNone, cefr |-> PyNone, error |-> PyStr("Text too short")]}
    ELSE LET lg == IF Truthy(lang) THEN lang ELSE PyStr(detect_language(text))
         IN IF ts.t = "float"
            THEN {[grade_level |-> Round1(ts), cefr |-> grade_to_cefr(ts), language |-> lg]}
            ELSE IF TextSum(text, "words") < 10
            THEN {[grade_level |-> PyNone, cefr |-> PyNone,
                   error |-> PyStr("Not enough words")]}
            ELSE {LET terms == TextSum(text, "terms")
                      sentences == IF terms > 1 THEN terms ELSE 1
                      grade_level == ManualGrade(sentences, TextSum(text, "words"),
                                                 TextSum(text, "syll"), e)
                  IN [grade_level |-> RoundClamped(grade_level),
                      cefr |-> grade_to_cefr(grade_level),
                      language |-> lg] : e \in {-1, 0, 1}}

\* The results calculate_reading_difficulty(text, lang) can return, ts being
\* what the textstat tier does.
calculate_reading_difficulty(text, lang, ts) ==
    IF TextLen(text) < 100
    THEN {[grade_level |-> PyNone, cefr |-> PyNone, error |-> PyStr("Text too short")]}
    ELSE LET lg == IF Truthy(lang) THEN lang ELSE PyStr(detect_language(text))
         IN IF ts.t = "float"
            THEN {[grade_level |-> Round1(ts), cefr |-> grade_to_cefr(ts), language |-> lg]}
            ELSE IF TextSum(text, "words") < 10
            THEN {[grade_level |-> PyNone, cefr |-> PyNone,
                   error |-> PyStr("Not enough words")]}
            ELSE {LET terms == TextSum(text, "terms")
                      sentences == IF terms > 1 THEN terms ELSE 1
                      grade_level == ManualGrade(sentences, TextSum(text, "words"),
                                                 TextSum(text, "syll"), e)
                  IN [grade_level |-> RoundClamped(grade_level),
                      cefr |-> grade_to_cefr(grade_level),
                      language |-> lg] : e \in {-1, 0, 1}}

-----------------------------------------------------------------------------
(* Archive inspector: HTMLTextExtractor, extract_epub_metadata,            *)
(* extract_text_from_epub                                                  *)

\* What evaluating an expression or a call does: it returns a value, or it
\* raises an exception (value then names its class).
Ok(v) == [raised |-> FALSE, value |-> v]
Raised(class) == [raised |-> TRUE, value |-> class]

\* str.endswith(suffix)
EndsWith(s, suffix) ==
    Len(s) >= Len(suffix) /\ SubSeq(s, Len(s) - Len(suffix) + 1, Len(s)) = suffix

\* str.strip()
RECURSIVE LStrip(_)
LStrip(s) == IF s # "" /\ IsSpace(Head(s)) THEN LStrip(Tail(s)) ELSE s
RECURSIVE RStrip(_)
RStrip(s) ==
    IF s # "" /\ IsSpace(Char(s, Len(s))) THEN RStrip(SubSeq(s, 1, Len(s) - 1)) ELSE s
Strip(s) == RStrip(LStrip(s))

\* The characters of the model's alphabet in code point order: those of
\* printable ASCII, from 32 on and, after the grave accent (which a string of
\* the model cannot hold), from 97 on, and those of Latin-1, from 160 on.
AsciiFrom32 == " !\"#$%&'()*+,-./0123456789:;<=>?@ABCDEFGHIJKLMNOPQRSTUVWXYZ[\\]^_"
AsciiFrom97 == "abcdefghijklmnopqrstuvwxyz{|}~"
Latin1From160 == " ¡¢£¤¥¦§¨©ª«¬­®¯°±²³´µ¶·¸¹º»¼½¾¿ÀÁÂÃÄÅÆÇÈÉÊËÌÍÎÏÐÑÒÓÔÕÖ×ØÙÚÛÜÝÞßàáâãäåæçèéêëìíîïðñòóôõö÷øùúûüýþÿ"

\* ord(c), for every character of the alphabet.
Alphabet ==
    {Char(AsciiFrom32, i) : i \in 1..Len(AsciiFrom32)}
        \cup {Char(AsciiFrom97, i) : i \in 1..Len(AsciiFrom97)}
        \cup {Char(Latin1From160, i) : i \in 1..Len(Latin1From160)}
        \cup {"\t", "\n", "\f", "\r"}
        \cup {Char(ControlSpaces, i) : i \in 1..Len(ControlSpaces)}
CodePoints ==
    [c \in Alphabet |->
        IF IndexOf(c, AsciiFrom32) > 0 THEN 31 + IndexOf(c, AsciiFrom32)
        ELSE IF IndexOf(c, AsciiFrom97) > 0 THEN 96 + IndexOf(c, AsciiFrom97)
        ELSE IF IndexOf(c, Latin1From160) > 0 THEN 159 + IndexOf(c, Latin1From160)
        ELSE IF IndexOf(c, ControlSpaces) > 0
        THEN <<11, 28, 29, 30, 31, 133>>[IndexOf(c, ControlSpaces)]
        ELSE CASE c = "\t" -> 9 [] c = "\n" -> 10 [] c = "\f" -> 12 [] c = "\r" -> 13]
Ord(c) == CodePoints[c]

\* a < b for two strings, as Python compares them: by code points.
RECURSIVE StrLess(_, _)
StrLess(a, b) ==
    IF b = "" THEN FALSE
    ELSE IF a = "" THEN TRUE
    ELSE IF Head(a) = Head(b) THEN StrLess(Tail(a), Tail(b))
    ELSE Ord(Head(a)) < Ord(Head(b))

\* sorted(names)
RECURSIVE InsertSorted(_, _)
InsertSorted(name, sortedNames) ==
    IF sortedNames = <<>> THEN <<name>>
    ELSE IF StrLess(name, Head(sortedNames)) THEN <<name>> \o sortedNames
    ELSE <<Head(sortedNames)>> \o InsertSorted(name, Tail(sortedNames))
RECURSIVE Sorted(_)
Sorted(names) ==
    IF names = <<>> THEN <<>>
    ELSE InsertSorted(names[Len(names)], Sorted(SubSeq(names, 1, Len(names) - 1)))

\* An archive is what is stored at a path:
\*   zip      whether zipfile.ZipFile opens it
\*   names    zf.namelist(), in the order of the archive
\*   entries  name -> entry, an entry being
\*     readable  whether zf.read(name) returns (it raises otherwise)
\*     utf8      whether the bytes decode as strict UTF-8
\*     fullpaths the values of the full-path="..." attributes of it, in order
\*     elems     the elements <tag ...>text</tag> of the document, in order
\*     events    the calls HTMLParser.feed makes on the decoded document, in order
\*     feed_ok   whether HTMLParser.feed returns (it raises otherwise)

\* zf.read(name)
ZipRead(archive, name) ==
    IF name \notin DOMAIN archive.entries THEN Raised("KeyError")
    ELSE IF ~archive.entries[name].readable THEN Raised("BadZipFile")
    ELSE Ok(archive.entries[name])

\* HTMLTextExtractor.skip_tags
skip_tags == {"script", "style", "head", "meta", "link"}

\* HTMLTextExtractor over the parser's calls: handle_starttag, handle_endtag
\* and handle_data update skip and text_parts.
RECURSIVE FeedEvents(_, _, _)
FeedEvents(events, skip, text_parts) ==
    IF events = <<>> THEN text_parts
    ELSE LET ev == Head(events)
         IN CASE ev.k = "start" ->
                   FeedEvents(Tail(events),
                              IF Lower(ev.tag) \in skip_tags THEN TRUE ELSE skip, text_parts)
              [] ev.k = "end" ->
                   FeedEvents(Tail(events),
                              IF Lower(ev.tag) \in skip_tags THEN FALSE ELSE skip, text_parts)
              [] ev.k = "data" ->
                   FeedEvents(Tail(events), skip,
                              IF ~skip THEN Append(text_parts, <<ev.chunk>>) ELSE text_parts)

\* extractor.feed(content); extractor.get_text()
HTMLText(events) == JoinTexts(FeedEvents(events, FALSE, <<>>))

NoMetadata == [title |-> PyNone, author |-> PyNone, language |-> PyNone]

\* re.search(r'<dc:NAME[^>]*>([^<]+)</dc:NAME>', opf_content, re.IGNORECASE):
\* the text of the first such element that is not empty, or None.
SearchElement(elems, tag) ==
    LET hits == {i \in DOMAIN elems : Lower(elems[i].tag) = tag /\ elems[i].text # ""}
    IN IF hits = {} THEN PyNone
       ELSE PyStr(elems[CHOOSE i \in hits : \A j \in hits : i <= j].text)

\* The first entry name ending in .opf, or None.
ScanForOpf(names) ==
    LET hits == {i \in DOMAIN names : EndsWith(names[i], ".opf")}
    IN IF hits = {} THEN PyNone ELSE PyStr(names[CHOOSE i \in hits : \A j \in hits : i <= j])

\* The inner try of extract_epub_metadata: the manifest path that
\* META-INF/container.xml gives, None when reading or decoding it raises or
\* when re.search(r'full-path="([^"]+\.opf)"') finds nothing: the match is the
\* first attribute whose value ends in .opf after one character at least.
OpfFromContainer(archive) ==
    LET rd == ZipRead(archive, "META-INF/container.xml")
    IN IF rd.raised THEN PyNone
       ELSE IF ~rd.value.utf8 THEN PyNone
       ELSE LET paths == rd.value.fullpaths
                hits == {i \in DOMAIN paths : Len(paths[i]) > 4 /\ EndsWith(paths[i], ".opf")}
            IN IF hits = {} THEN PyNone
               ELSE PyStr(paths[CHOOSE i \in hits : \A j \in hits : i <= j])

\* The body of the outer try of extract_epub_metadata.
MetadataBody(archive) ==
    IF ~archive.zip THEN Raised("BadZipFile")
    ELSE LET scan == ScanForOpf(archive.names)
             opf_path == IF Truthy(scan) THEN scan ELSE OpfFromContainer(archive)
         IN IF ~Truthy(opf_path) THEN Ok(NoMetadata)
            ELSE LET rd == ZipRead(archive, opf_path.v)
                 IN IF rd.raised THEN rd
                    ELSE LET title_match == SearchElement(rd.value.elems, "dc:title")
                             author_match == SearchElement(rd.value.elems, "dc:creator")
                             lang_match == SearchElement(rd.value.elems, "dc:language")
                         IN Ok([title |-> IF Truthy(title_match)
                                          THEN PyStr(Strip(title_match.v)) ELSE PyNone,
                                author |-> IF Truthy(author_match)
                                           THEN PyStr(Strip(author_match.v)) ELSE PyNone,
                                language |-> IF Truthy(lang_match)
                                             THEN PyStr(Lower(SubSeq(Strip(lang_match.v), 1,
                                                    Min(2, Len(Strip(lang_match.v))))))
                                             ELSE PyNone])

\* The mutant has no outer try: what the body raises reaches the caller.
extract_epub_metadata_no_try(archive) == MetadataBody(archive)

\* extract_epub_metadata(epub_path): `except Exception: pass` and the
\* metadata as it stands, which is still the initial dict when the body raised
\* (nothing raises after the manifest is read).
extract_epub_metadata(archive) ==
    IF MetadataBody(archive).raised THEN Ok(NoMetadata) ELSE MetadataBody(archive)

\* The mutant looks for 'toc' in the name as it is ('toc' not in n).
IsContentDocumentCaseSensitive(n) ==
    /\ EndsWith(n, ".html") \/ EndsWith(n, ".xhtml") \/ EndsWith(n, ".htm")
    /\ ~IsSubstr("toc", n)

\* n.endswith(('.html', '.xhtml', '.htm')) and 'toc' not in n.lower()
IsContentDocument(n) ==
    /\ EndsWith(n, ".html") \/ EndsWith(n, ".xhtml") \/ EndsWith(n, ".htm")
    /\ ~IsSubstr("toc", Lower(n))

\* [n for n in zf.namelist() if ...]
RECURSIVE SelectSeq2(_)
SelectSeq2(names) ==
    IF names = <<>> THEN <<>>
    ELSE (IF IsContentDocument(Head(names)) THEN <<Head(names)>> ELSE <<>>)
             \o SelectSeq2(Tail(names))

\* The mutant has no try around one document: the first document that cannot
\* be read or parsed raises out of the loop.
RECURSIVE ExtractLoopNoInnerTry(_, _, _, _, _)
ExtractLoopNoInnerTry(archive, names, text_parts, total_chars, max_chars) ==
    IF names = <<>> \/ total_chars >= max_chars THEN Ok(text_parts)
    ELSE LET rd == ZipRead(archive, Head(names))
         IN IF rd.raised THEN rd
            ELSE IF ~rd.value.feed_ok THEN Raised("AssertionError")
            ELSE LET text == HTMLText(rd.value.events)
                 IN ExtractLoopNoInnerTry(archive, Tail(names), Append(text_parts, text),
                                          total_chars + TextLen(text), max_chars)

\* The mutant goes on when total_chars has just reached max_chars (> for >=).
RECURSIVE ExtractLoopCapExclusive(_, _, _, _, _)
ExtractLoopCapExclusive(archive, names, text_parts, total_chars, max_chars) ==
    IF names = <<>> \/ total_chars > max_chars THEN Ok(text_parts)
    ELSE LET rd == ZipRead(archive, Head(names))
         IN IF rd.raised \/ ~rd.value.feed_ok
            THEN ExtractLoopCapExclusive(archive, Tail(names), text_parts, total_chars,
                                         max_chars)
            ELSE LET text == HTMLText(rd.value.events)
                 IN ExtractLoopCapExclusive(archive, Tail(names), Append(text_parts, text),
                                            total_chars + TextLen(text), max_chars)

\* The loop of extract_text_from_epub over the sorted names: it stops once
\* total_chars has reached max_chars, and a document whose read or parse
\* raises is passed over (`except Exception: continue`).
RECURSIVE ExtractLoop(_, _, _, _, _)
ExtractLoop(archive, names, text_parts, total_chars, max_chars) ==
    IF names = <<>> \/ total_chars >= max_chars THEN Ok(text_parts)
    ELSE LET rd == ZipRead(archive, Head(names))
         IN IF rd.raised \/ ~rd.value.feed_ok
            THEN ExtractLoop(archive, Tail(names), text_parts, total_chars, max_chars)
            ELSE LET text == HTMLText(rd.value.events)
                 IN ExtractLoop(archive, Tail(names), Append(text_parts, text),
                                total_chars + TextLen(text), max_chars)

\* max_chars of extract_text_from_epub, its default.
DefaultMaxChars == 500000

\* extract_text_from_epub(epub_path, max_chars): '' when the outer try raises.
extract_text_from_epub(archive, max_chars) ==
    IF ~archive.zip THEN Ok(<<>>)
    ELSE LET loop == ExtractLoop(archive, Sorted(SelectSeq2(archive.names)), <<>>, 0, max_chars)
         IN IF loop.raised THEN Ok(<<>>) ELSE Ok(JoinTexts(loop.value))

-----------------------------------------------------------------------------
(* Catalog pipeline: detect_themes, the download functions, the cache and  *)
(* the CSV conversions                                                      *)

\* The theme ids, in the order of the dicts of THEME_KEYWORDS.
ThemeOrder ==
    <<"coming_of_age", "self_discovery", "love_romance", "morality", "social_criticism", "adventure", "nature">>
        \o <<"death_mortality", "family", "war_conflict", "freedom", "faith_religion", "ambition", "isolation">>

THEME_KEYWORDS ==
    [en |->
        [coming_of_age |-> <<"growing up", "childhood", "youth", "adolescent">>
             \o <<"mature", "coming of age", "rite of passage", "innocence", "adulthood">>,
         self_discovery |-> <<"identity", "self", "soul", "purpose", "meaning">>
             \o <<"destiny", "truth", "enlightenment", "awakening", "realization">>,
         love_romance |-> <<"love", "heart", "passion", "beloved">>
             \o <<"marriage", "romance", "affection", "devotion", "desire">>,
         morality |-> <<"moral", "virtue", "sin", "conscience", "duty">>
             \o <<"honor", "righteous", "ethical", "good", "evil", "temptation">>,
         social_criticism |-> <<"society", "class", "poverty", "wealth">>
             \o <<"injustice", "oppression", "inequality", "corruption", "hypocrisy">>,
         adventure |-> <<"adventure", "journey", "quest", "explore", "discover">>
             \o <<"voyage", "expedition", "danger", "brave", "hero">>,
         nature |-> <<"nature", "forest", "mountain", "sea">>
             \o <<"river", "wild", "animal", "natural", "landscape">>,
         death_mortality |-> <<"death", "die", "grave", "mortal">>
             \o <<"funeral", "ghost", "afterlife", "eternal", "fate">>,
         family |-> <<"family", "father", "mother", "brother">>
             \o <<"sister", "parent", "child", "home", "heritage">>,
         war_conflict |-> <<"war", "battle", "soldier", "army", "enemy">>
             \o <<"fight", "conflict", "peace", "victory", "defeat">>,
         freedom |-> <<"freedom", "liberty", "free", "escape">>
             \o <<"prison", "captive", "chains", "independence">>,
         faith_religion |-> <<"god", "faith", "prayer", "church", "soul">>
             \o <<"heaven", "divine", "spirit", "holy", "salvation">>,
         ambition |-> <<"ambition", "power", "success", "glory">>
             \o <<"fame", "fortune", "aspiration", "dream", "goal">>,
         isolation |-> <<"alone", "lonely", "solitude", "isolation">>
             \o <<"exile", "outcast", "stranger", "alienation">>],
     de |->
        [coming_of_age |-> <<"erwachsen", "jugend", "kindheit">>
             \o <<"reife", "entwicklung", "bildung", "lehrjahre">>,
         self_discovery |-> <<"selbst", "seele", "identität", "sinn">>
             \o <<"wahrheit", "erkenntnis", "erwachen", "bestimmung">>,
         love_romance |-> <<"liebe", "herz", "leidenschaft", "ehe">>
             \o <<"hochzeit", "zuneigung", "sehnsucht", "verlangen">>,
         morality |-> <<"moral", "tugend", "sünde", "gewissen">>
             \o <<"pflicht", "ehre", "gut", "böse", "schuld">>,
         social_criticism |-> <<"gesellschaft", "klasse", "armut">>
             \o <<"reichtum", "ungerechtigkeit", "unterdrückung", "bürger">>,
         adventure |-> <<"abenteuer", "reise", "fahrt", "entdeckung">>
             \o <<"gefahr", "held", "mut", "wagnis">>,
         nature |-> <<"natur", "wald", "berg", "meer", "fluss", "wild", "tier", "landschaft">>,
         death_mortality |-> <<"tod", "sterben", "grab", "sterblich">>
             \o <<"geist", "ewigkeit", "schicksal", "ende">>,
         family |-> <<"familie", "vater", "mutter", "bruder">>
             \o <<"schwester", "eltern", "kind", "heim", "erbe">>,
         war_conflict |-> <<"krieg", "kampf", "soldat", "heer">>
             \o <<"feind", "schlacht", "frieden", "sieg", "niederlage">>,
         freedom |-> <<"freiheit", "frei", "flucht">>
             \o <<"gefängnis", "ketten", "befreiung", "unabhängigkeit">>,
         faith_religion |-> <<"gott", "glaube", "gebet", "kirche">>
             \o <<"seele", "himmel", "heilig", "erlösung", "segen">>,
         ambition |-> <<"ehrgeiz", "macht", "erfolg", "ruhm">>
             \o <<"traum", "ziel", "streben", "aufstieg">>,
         isolation |-> <<"einsamkeit", "allein", "einsam">>
             \o <<"fremd", "außenseiter", "verbannt", "verlassen">>],
     es |->
        [coming_of_age |-> <<"crecer", "juventud", "infancia">>
             \o <<"madurez", "adolescencia", "formación">>,
         self_discovery |-> <<"identidad", "alma", "sentido">>
             \o <<"verdad", "destino", "despertar", "iluminación">>,
         love_romance |-> <<"amor", "corazón", "pasión", "matrimonio">>
             \o <<"boda", "deseo", "cariño", "enamorado">>,
         morality |-> <<"moral", "virtud", "pecado", "conciencia">>
             \o <<"deber", "honor", "bien", "mal", "culpa">>,
         social_criticism |-> <<"sociedad", "clase", "pobreza">>
             \o <<"riqueza", "injusticia", "opresión", "corrupción">>,
         adventure |-> <<"aventura", "viaje", "búsqueda">>
             \o <<"explorar", "peligro", "héroe", "valiente">>,
         nature |-> <<"naturaleza", "bosque", "montaña", "mar">>
             \o <<"río", "salvaje", "animal", "paisaje">>,
         death_mortality |-> <<"muerte", "morir", "tumba">>
             \o <<"mortal", "fantasma", "eternidad", "destino">>,
         family |-> <<"familia", "padre", "madre", "hermano">>
             \o <<"hermana", "hijo", "hogar", "herencia">>,
         war_conflict |-> <<"guerra", "batalla", "soldado", "ejército">>
             \o <<"enemigo", "lucha", "paz", "victoria">>,
         freedom |-> <<"libertad", "libre", "escape">>
             \o <<"prisión", "cadenas", "independencia", "liberación">>,
         faith_religion |-> <<"dios", "fe", "oración", "iglesia">>
             \o <<"alma", "cielo", "sagrado", "salvación">>,
         ambition |-> <<"ambición", "poder", "éxito", "gloria">>
             \o <<"fama", "sueño", "meta", "fortuna">>,
         isolation |-> <<"soledad", "solo", "solitario">>
             \o <<"aislamiento", "exilio", "extranjero", "abandonado">>],
     fr |->
        [coming_of_age |-> <<"grandir", "jeunesse", "enfance">>
             \o <<"maturité", "adolescence", "formation">>,
         self_discovery |-> <<"identité", "âme", "sens">>
             \o <<"vérité", "destin", "éveil", "illumination">>,
         love_romance |-> <<"amour", "coeur", "passion", "mariage">>
             \o <<"noces", "désir", "tendresse", "amoureux">>,
         morality |-> <<"moral", "vertu", "péché", "conscience">>
             \o <<"devoir", "honneur", "bien", "mal", "culpabilité">>,
         social_criticism |-> <<"société", "classe", "pauvreté">>
             \o <<"richesse", "injustice", "oppression", "corruption">>,
         adventure |-> <<"aventure", "voyage", "quête", "explorer", "danger", "héros", "brave">>,
         nature |-> <<"nature", "forêt", "montagne", "mer">>
             \o <<"rivière", "sauvage", "animal", "paysage">>,
         death_mortality |-> <<"mort", "mourir", "tombe">>
             \o <<"mortel", "fantôme", "éternité", "destin">>,
         family |-> <<"famille", "père", "mère", "frère", "soeur", "enfant", "foyer", "héritage">>,
         war_conflict |-> <<"guerre", "bataille", "soldat", "armée">>
             \o <<"ennemi", "lutte", "paix", "victoire">>,
         freedom |-> <<"liberté", "libre", "évasion">>
             \o <<"prison", "chaînes", "indépendance", "libération">>,
         faith_religion |-> <<"dieu", "foi", "prière", "église", "âme", "ciel", "sacré", "salut">>,
         ambition |-> <<"ambition", "pouvoir", "succès", "gloire">>
             \o <<"renommée", "rêve", "but", "fortune">>,
         isolation |-> <<"solitude", "seul", "solitaire">>
             \o <<"isolement", "exil", "étranger", "abandonné">>]]

THEME_LABELS ==
    [coming_of_age |-> "Coming of Age",
     self_discovery |-> "Self-Discovery",
     love_romance |-> "Love & Romance",
     morality |-> "Morality & Ethics",
     social_criticism |-> "Social Criticism",
     adventure |-> "Adventure",
     nature |-> "Nature",
     death_mortality |-> "Death & Mortality",
     family |-> "Family",
     war_conflict |-> "War & Conflict",
     freedom |-> "Freedom",
     faith_religion |-> "Faith & Religion",
     ambition |-> "Ambition & Power",
     isolation |-> "Isolation & Alienation"]

\* score of one theme in detect_themes: the matches of its keywords in the
\* text, keyword by keyword.
RECURSIVE KeywordMatches(_, _)
KeywordMatches(text, theme_keywords) ==
    IF theme_keywords = <<>> THEN 0
    ELSE TextCount(text, "kw", Head(theme_keywords))
             + KeywordMatches(text, Tail(theme_keywords))

\* sorted(theme_scores.items(), key=score, reverse=True) over the themes of a
\* non-zero score, as positions of ThemeOrder: the scores are count /
\* word_count * 10000 for one word_count, so they order as the counts do, and
\* the sort is stable.  chosen are the positions already placed.
RECURSIVE SortedThemes(_, _)
SortedThemes(count, chosen) ==
    LET rest == {i \in DOMAIN ThemeOrder : count[i] > 0 /\ i \notin chosen}
    IN IF rest = {} THEN <<>>
       ELSE LET best == CHOOSE i \in rest :
                            \A j \in rest : count[j] < count[i] \/ (count[j] = count[i] /\ i <= j)
            IN <<best>> \o SortedThemes(count, chosen \cup {best})

\* The mutant drops a theme whose score is exactly 1 (> for >=).
detect_themes_strict(text, lang, top_n) ==
    IF text = <<>> THEN <<>>
    ELSE LET lg == IF Truthy(lang) THEN lang.v ELSE detect_language(text)
             keywords == IF lg \in DOMAIN THEME_KEYWORDS
                         THEN THEME_KEYWORDS[lg] ELSE THEME_KEYWORDS["en"]
             word_count == TextSum(text, "rawwords")
             count == [i \in DOMAIN ThemeOrder |-> KeywordMatches(text, keywords[ThemeOrder[i]])]
             sorted_themes == SortedThemes(count, {})
             stop == IF top_n >= 0 THEN Min(top_n, Len(sorted_themes))
                     ELSE IF Len(sorted_themes) + top_n > 0 THEN Len(sorted_themes) + top_n
                     ELSE 0
             top == SubSeq(sorted_themes, 1, stop)
             kept == SelectSeq(top, LAMBDA i : count[i] * 10000 > word_count)
         IN IF word_count = 0 THEN <<>>
            ELSE [k \in DOMAIN kept |-> THEME_LABELS[ThemeOrder[kept[k]]]]

\* detect_themes(text, lang, top_n); lang is a Python value.  A score
\* count / word_count * 10000 is >= 1 exactly when count * 10000 >= word_count.
\* The slice sorted_themes[:top_n] ends top_n before the end when top_n < 0.
detect_themes(text, lang, top_n) ==
    IF text = <<>> THEN <<>>
    ELSE LET lg == IF Truthy(lang) THEN lang.v ELSE detect_language(text)
             keywords == IF lg \in DOMAIN THEME_KEYWORDS
                         THEN THEME_KEYWORDS[lg] ELSE THEME_KEYWORDS["en"]
             word_count == TextSum(text, "rawwords")
             count == [i \in DOMAIN ThemeOrder |-> KeywordMatches(text, keywords[ThemeOrder[i]])]
             sorted_themes == SortedThemes(count, {})
             stop == IF top_n >= 0 THEN Min(top_n, Len(sorted_themes))
                     ELSE IF Len(sorted_themes) + top_n > 0 THEN Len(sorted_themes) + top_n
                     ELSE 0
             top == SubSeq(sorted_themes, 1, stop)
             kept == SelectSeq(top, LAMBDA i : count[i] * 10000 >= word_count)
         IN IF word_count = 0 THEN <<>>
            ELSE [k \in DOMAIN kept |-> THEME_LABELS[ThemeOrder[kept[k]]]]

\* A key a dict does not hold: dict.get(key, default) then gives the default.
Missing == [t |-> "missing"]
Get(d, key, default) == IF d[key] = Missing THEN default ELSE d[key]

\* What a server answers to one request: the request raises (no connection,
\* an HTTP error, a timeout), or it returns the bytes of a file.  A file is an
\* archive with, beside what the inspector reads of it,
\*   pk    whether its bytes start with b'PK'
\*   size  its length in bytes
FetchError == [t |-> "error"]
FetchData(file) == [t |-> "data", data |-> file]

\* min_size of try_download_url, its default.
MinSize == 10000

\* The mutant accepts data of any size (no len(data) < min_size).
try_download_url_any_size(response) ==
    /\ response.t = "data"
    /\ response.data.pk

\* try_download_url(url, filepath), the target not existing before: whether it
\* returns True, the data then being written to filepath.
try_download_url(response) ==
    /\ response.t = "data"
    /\ response.data.pk
    /\ response.data.size >= MinSize

\* The loop of download_book over ia_urls, a list of <<url, response>>:
\* the position of the first URL whose download succeeds, 0 without one.
FirstSuccess(ia_urls) ==
    IF \E i \in DOMAIN ia_urls : try_download_url(ia_urls[i][2])
    THEN CHOOSE i \in DOMAIN ia_urls :
             /\ try_download_url(ia_urls[i][2])
             /\ \A j \in 1..(i - 1) : ~try_download_url(ia_urls[j][2])
    ELSE 0

\* os.path.getsize(filepath) / 1024: a division by a power of two is exact.
SizeKb(file) == PyFloat(file.size, 1024, 0)

\* A float too large or too small for n/d with a denominator up to 10^9: the
\* decimal 0.digits * 10^pos, digits without leading and trailing zeros.
SciFloat(negative, digits, pos) ==
    [t |-> "float", negative |-> negative, digits |-> digits, pos |-> pos]

\* The number of decimal digits of a power of ten beyond its leading 1.
RECURSIVE Exponent10(_)
Exponent10(d) == IF d <= 1 THEN 0 ELSE 1 + Exponent10(d \div 10)

RECURSIVE Zeros(_)
Zeros(k) == IF k <= 0 THEN "" ELSE "0" \o Zeros(k - 1)

StripLeadingZeros(s) ==
    IF \A i \in 1..Len(s) : Char(s, i) = "0" THEN ""
    ELSE SubSeq(s, CHOOSE i \in 1..Len(s) :
                       Char(s, i) # "0" /\ \A j \in 1..(i - 1) : Char(s, j) = "0",
                Len(s))

StripTrailingZeros(s) ==
    IF \A i \in 1..Len(s) : Char(s, i) = "0" THEN ""
    ELSE SubSeq(s, 1, CHOOSE i \in 1..Len(s) :
                          Char(s, i) # "0" /\ \A j \in (i + 1)..Len(s) : Char(s, j) = "0")

\* float.__repr__ of the float nearest to the decimal 0.digits * 10^pos
\* (digits without leading and trailing zeros, 15 of them at most, so that the
\* shortest decimal that reads back as the float is this one): the plain
\* form for 1e-4 <= |x| < 1e16, the exponent form otherwise.
ReprDecimal(negative, digits, pos) ==
    LET k == Len(digits)
        exp == pos - 1
        a == IF exp < 0 THEN -exp ELSE exp
    IN (IF negative THEN "-" ELSE "")
       \o (IF exp >= -4 /\ exp < 16
           THEN (IF pos >= k THEN digits \o Zeros(pos - k) \o ".0"
                 ELSE IF pos > 0 THEN SubSeq(digits, 1, pos) \o "." \o SubSeq(digits, pos + 1, k)
                 ELSE "0." \o Zeros(-pos) \o digits)
           ELSE Head(digits) \o (IF k > 1 THEN "." \o Tail(digits) ELSE "")
                \o "e" \o (IF exp < 0 THEN "-" ELSE "+")
                \o (IF a < 10 THEN "0" ELSE "") \o ToString(a))

\* Whether d is a power of ten.
RECURSIVE IsPowerOfTen(_)
IsPowerOfTen(d) == d = 1 \/ (d > 1 /\ d % 10 = 0 /\ IsPowerOfTen(d \div 10))

\* The digits after the point of r/d, r < d, by long division: all of them
\* when the division ends, the first 'left' of them otherwise.
RECURSIVE FractionDigits(_, _, _)
FractionDigits(r, d, left) ==
    IF r = 0 \/ left = 0 THEN ""
    ELSE ToString((10 * r) \div d) \o FractionDigits((10 * r) % d, d, left - 1)

\* The digits of n/d, n > 0 and d no power of ten, and the number of them
\* before the point, as ReprDecimal takes them.
QuotientRepr(negative, whole, fraction) ==
    ReprDecimal(negative, StripTrailingZeros(StripLeadingZeros(whole \o fraction)),
                Len(StripLeadingZeros(whole \o fraction)) - Len(fraction))

\* str(x) of a float: of a rational n/d, d being a power of ten (what
\* round(x, 1) and float() of a cell give) or a power of two (a size in KB,
\* whose decimal digits are those of the division).
FloatStr(x) ==
    IF "special" \in DOMAIN x THEN x.special
    ELSE IF "digits" \in DOMAIN x THEN ReprDecimal(x.negative, x.digits, x.pos)
    ELSE IF x.n = 0 THEN "0.0"
    ELSE IF IsPowerOfTen(x.d)
    THEN LET a == ToString(IF x.n < 0 THEN -x.n ELSE x.n)
         IN ReprDecimal(x.n < 0, StripTrailingZeros(a), Len(a) - Exponent10(x.d))
    ELSE LET a == IF x.n < 0 THEN -x.n ELSE x.n
         IN QuotientRepr(x.n < 0, ToString(a \div x.d), FractionDigits(a % x.d, x.d, 17))

\* str(v), as an f-string formats a value.
PyFormat(v) ==
    CASE v.t = "None" -> "None"
      [] v.t = "str" -> v.v
      [] v.t = "bool" -> IF v.v THEN "True" ELSE "False"
      [] v.t = "int" -> ToString(v.v)
      [] v.t = "float" -> FloatStr(v)

\* '%XX' for one byte.
PercentByte(b) ==
    "%" \o Char("0123456789ABCDEF", (b \div 16) + 1) \o Char("0123456789ABCDEF", (b % 16) + 1)

\* urllib.parse.quote(s): letters, digits and _.-~/ stay, every other
\* character becomes the bytes of its UTF-8 encoding, each as %XX.
RECURSIVE Quote(_)
Quote(s) ==
    IF s = "" THEN ""
    ELSE LET c == Head(s)
             cp == Ord(c)
         IN (IF (cp >= 48 /\ cp <= 57) \/ (cp >= 65 /\ cp <= 90) \/ (cp >= 97 /\ cp <= 122)
                   \/ c \in {"_", ".", "-", "~", "/"}
             THEN c
             ELSE IF cp < 128 THEN PercentByte(cp)
             ELSE PercentByte(192 + (cp \div 64)) \o PercentByte(128 + (cp % 64)))
            \o Quote(Tail(s))

\* The Internet Archive, as search_internet_archive and download_book meet it:
\*   search  what the search request gives: the request or the reading of its
\*           JSON raises, or response.docs, each doc a dict
\*   items   identifier -> what the metadata request gives: it raises, or the
\*           names of the files of the item
\*   files   download URL -> what it answers
SearchDocs(docs) == [t |-> "docs", docs |-> docs]
ItemFiles(names) == [t |-> "files", names |-> names]

SearchUrl(title, author) ==
    "https://archive.org/advancedsearch.php?q=" \o Quote(title \o " " \o author)
        \o "+AND+format:EPUB&fl=identifier&output=json&rows=5"
MetadataUrl(identifier) == "https://archive.org/metadata/" \o identifier
DownloadUrl(identifier, name) ==
    "https://archive.org/download/" \o identifier \o "/" \o name

\* epub_files of one item, sorted by (0 if '_lcp.epub' in x else 1, x).
EpubFilesSorted(names) ==
    LET epub_files == SelectSeq(names, LAMBDA name : EndsWith(name, ".epub"))
    IN Sorted(SelectSeq(epub_files, LAMBDA name : IsSubstr("_lcp.epub", name)))
           \o Sorted(SelectSeq(epub_files, LAMBDA name : ~IsSubstr("_lcp.epub", name)))

\* The loop of search_internet_archive over docs[:3]: a doc without
\* identifier raises KeyError, which ends the search with the URLs so far; a
\* metadata request that raises gives no URL for its item.
RECURSIVE SearchLoop(_, _, _, _)
SearchLoop(docs, archive, urls, requested) ==
    IF docs = <<>> \/ "identifier" \notin DOMAIN Head(docs)
    THEN [urls |-> urls, requested |-> requested]
    ELSE LET identifier == Head(docs).identifier
             item == IF identifier \in DOMAIN archive.items
                     THEN archive.items[identifier] ELSE FetchError
             names == IF item.t = "files" THEN EpubFilesSorted(item.names) ELSE <<>>
         IN SearchLoop(Tail(docs), archive,
                       urls \o [k \in DOMAIN names |-> DownloadUrl(identifier, names[k])],
                       Append(requested, MetadataUrl(identifier)))

\* search_internet_archive(title, author): the download URLs to try, and the
\* URLs it requested itself, in order.
search_internet_archive(title, author, archive) ==
    IF archive.search.t # "docs"
    THEN [urls |-> <<>>, requested |-> <<SearchUrl(title, author)>>]
    ELSE SearchLoop(SubSeq(archive.search.docs, 1, Min(3, Len(archive.search.docs))),
                    archive, <<>>, <<SearchUrl(title, author)>>)

\* What a download URL of the Internet Archive answers.
FileAnswer(archive, url) ==
    IF url \in DOMAIN archive.files THEN archive.files[url] ELSE FetchError

\* x == 0 for a Python value.
PyEqualsZero(x) ==
    CASE x.t = "int" -> x.v = 0
      [] x.t = "bool" -> ~x.v
      [] x.t = "float" -> "n" \in DOMAIN x /\ x.n = 0
      [] OTHER -> FALSE

\* x > 0 for a Python value: the comparison of a str or of None with an int
\* raises TypeError.
PyGreaterZero(x) ==
    CASE x.t = "int" -> Ok(x.v > 0)
      [] x.t = "bool" -> Ok(x.v)
      [] x.t = "float" -> Ok(IF "n" \in DOMAIN x THEN x.n > 0
                             ELSE IF "special" \in DOMAIN x THEN x.special = "inf"
                             ELSE ~x.negative)
      [] OTHER -> Raised("TypeError")

\* result of download_book as it starts.
StatusDict ==
    [downloaded |-> FALSE, exists |-> FALSE, source |-> PyNone, size_kb |-> PyInt(0),
     error |-> PyNone]

\* The fallback of download_book once the search has returned: first holds
\* the primary URL that was tried, search is what search_internet_archive
\* gave. Its URLs are tried in order up to the first success.
ArchiveFallback(book, disk, first, search, archive) ==
    LET ia_urls == [i \in DOMAIN search.urls |->
                       <<search.urls[i], FileAnswer(archive, search.urls[i])>>]
        k == FirstSuccess(ia_urls)
    IN IF k > 0
       THEN [raised |-> FALSE,
             result |-> [StatusDict EXCEPT !.downloaded = TRUE,
                                           !.source = PyStr("Internet Archive"),
                                           !.size_kb = SizeKb(ia_urls[k][2].data)],
             disk |-> (book.filename :> ia_urls[k][2].data) @@ disk,
             tried |-> first \o SubSeq(search.urls, 1, k),
             fetched |-> first \o search.requested \o SubSeq(search.urls, 1, k)]
       ELSE [raised |-> FALSE,
             result |-> [StatusDict EXCEPT
                            !.error = PyStr("Could not download from any source")],
             disk |-> disk,
             tried |-> first \o search.urls,
             fetched |-> first \o search.requested \o search.urls]

\* download_book after the primary URL, first holding it when it was tried:
\* 'if gutenberg_id and gutenberg_id > 0' decides whether the Internet
\* Archive is searched, or raises.
AfterPrimary(book, disk, first, gutenberg_id, archive) ==
    IF ~Truthy(gutenberg_id)
    THEN [raised |-> FALSE,
          result |-> [StatusDict EXCEPT !.error = PyStr("Could not download from any source")],
          disk |-> disk, tried |-> first, fetched |-> first]
    ELSE IF PyGreaterZero(gutenberg_id).raised
    THEN [raised |-> TRUE, result |-> PyGreaterZero(gutenberg_id).value, disk |-> disk,
          tried |-> first, fetched |-> first]
    ELSE IF ~PyGreaterZero(gutenberg_id).value
    THEN [raised |-> FALSE,
          result |-> [StatusDict EXCEPT !.error = PyStr("Could not download from any source")],
          disk |-> disk, tried |-> first, fetched |-> first]
    ELSE ArchiveFallback(book, disk, first,
                         search_internet_archive(PyFormat(book.title), PyFormat(book.author),
                                                 archive),
                         archive)

\* download_book(book, output_dir) on the folder disk (filename -> file),
\* primary being what the primary URL answers and archive the Internet
\* Archive.  Gives the status dict or the exception raised, the folder
\* afterwards, the URLs given to try_download_url (tried) and the URLs
\* requested from a server (fetched), in order.
download_book(book, disk, primary, archive) ==
    LET primary_url == Get(book, "url", PyStr(""))
        gutenberg_id == Get(book, "gutenberg_id", PyInt(0))
    IN IF book.filename \in DOMAIN disk
       THEN [raised |-> FALSE,
             result |-> [StatusDict EXCEPT !.exists = TRUE,
                                           !.size_kb = SizeKb(disk[book.filename])],
             disk |-> disk, tried |-> <<>>, fetched |-> <<>>]
       ELSE IF ~Truthy(primary_url) /\ PyEqualsZero(gutenberg_id)
       THEN [raised |-> FALSE,
             result |-> [StatusDict EXCEPT
                            !.error = PyStr("No source available (marked as unavailable)")],
             disk |-> disk, tried |-> <<>>, fetched |-> <<>>]
       ELSE IF ~Truthy(primary_url)
       THEN AfterPrimary(book, disk, <<>>, gutenberg_id, archive)
       ELSE IF try_download_url(primary)
       THEN [raised |-> FALSE,
             result |-> [StatusDict EXCEPT
                            !.downloaded = TRUE,
                            !.source = IF IsSubstr("gutenberg.org", primary_url.v)
                                       THEN PyStr("Gutenberg") ELSE PyStr("Direct URL"),
                            !.size_kb = SizeKb(primary.data)],
             disk |-> (book.filename :> primary.data) @@ disk,
             tried |-> <<primary_url.v>>, fetched |-> <<primary_url.v>>]
       ELSE AfterPrimary(book, disk, <<primary_url.v>>, gutenberg_id, archive)

\* fieldnames of write_csv.
Fieldnames ==
    <<"category", "folder", "filename", "expected_title", "expected_author",
      "gutenberg_id", "note", "file_exists", "file_size_kb", "download_source",
      "download_error", "actual_title", "actual_author", "title_match",
      "author_match", "language", "grade_level", "cefr",
      "theme_1", "theme_2", "theme_3", "theme_4", "theme_5">>

\* The theme columns f'theme_{j}', j = 1..5.
ThemeFields == <<"theme_1", "theme_2", "theme_3", "theme_4", "theme_5">>

\* What reading a file in text mode makes of the line ends in it (universal
\* newlines): '\r\n' and '\r' become '\n'.
RECURSIVE UniversalNewlines(_)
UniversalNewlines(s) ==
    IF s = "" THEN ""
    ELSE IF Head(s) = "\r"
         THEN "\n" \o UniversalNewlines(IF Len(s) > 1 /\ Char(s, 2) = "\n"
                                        THEN SubSeq(s, 3, Len(s)) ELSE Tail(s))
         ELSE Head(s) \o UniversalNewlines(Tail(s))

\* What csv.DictWriter writes for a value, and csv.DictReader reads back as
\* the cell: '' for None, str(value) otherwise. The csv module quotes what
\* needs it and gives the text back as it was written, but for the line ends
\* in it: load_existing_csv opens the file without newline=''.
CsvCell(v) ==
    CASE v.t = "None" -> ""
      [] v.t = "str" -> UniversalNewlines(v.v)
      [] v.t = "bool" -> IF v.v THEN "True" ELSE "False"
      [] v.t = "int" -> ToString(v.v)
      [] v.t = "float" -> FloatStr(v)

\* Whether a string is one digit at least and digits only.
IsDigits(s) ==
    /\ s # ""
    /\ \A i \in 1..Len(s) : IndexOf(Char(s, i), DigitChars) > 0

\* int(s) of a string of digits ("" being 0).
RECURSIVE DigitsValue(_)
DigitsValue(s) ==
    IF s = "" THEN 0
    ELSE 10 * DigitsValue(SubSeq(s, 1, Len(s) - 1)) + (IndexOf(Char(s, Len(s)), DigitChars) - 1)

RECURSIVE Power10(_)
Power10(k) == IF k = 0 THEN 1 ELSE 10 * Power10(k - 1)

\* n/d, d a power of ten, in lowest such terms with d >= 10.
RECURSIVE Decimal(_, _)
Decimal(n, d) ==
    IF d > 10 /\ n % 10 = 0 THEN Decimal(n \div 10, d \div 10)
    ELSE IF d < 10 THEN PyFloat(10 * n, 10, 0)
    ELSE PyFloat(n, d, 0)

\* A string without the underscores in it.
RECURSIVE WithoutUnderscores(_)
WithoutUnderscores(s) ==
    IF IndexOf("_", s) = 0 THEN s
    ELSE SubSeq(s, 1, IndexOf("_", s) - 1)
             \o WithoutUnderscores(SubSeq(s, IndexOf("_", s) + 1, Len(s)))

\* The digit part of a float literal: digits, single underscores between two
\* of them allowed.
IsDigitPart(s) ==
    /\ IsDigits(WithoutUnderscores(s))
    /\ Head(s) # "_" /\ Char(s, Len(s)) # "_"
    /\ ~IsSubstr("__", s)

\* Decimal numbers of any length, for the rounding that float() does: the
\* number 0.d1 d2 ... dn * 10^pos as the tuple ds of its digits and pos, d1
\* and dn not being 0.
Dec(ds, pos) == [ds |-> ds, pos |-> pos]

\* The digits of a string of digits, and back.
DigitsOf(s) == SubSeq([i \in 1..Len(s) |-> IndexOf(Char(s, i), DigitChars) - 1], 1, Len(s))
RECURSIVE DigitString(_)
DigitString(ds) == IF ds = <<>> THEN "" ELSE ToString(Head(ds)) \o DigitString(Tail(ds))

DigitAt(ds, i) == IF i >= 1 /\ i <= Len(ds) THEN ds[i] ELSE 0

\* Twice the integer of the digits ds, in one digit more: a digit doubles and
\* takes the carry of the digit after it, which is 1 when that digit is 5 or
\* more.
TwiceDigits(ds) ==
    SubSeq([i \in 1..(Len(ds) + 1) |->
               (2 * DigitAt(ds, i - 1) + (IF DigitAt(ds, i) >= 5 THEN 1 ELSE 0)) % 10],
           1, Len(ds) + 1)

\* Twice a decimal.
Doubled(x) ==
    Dec(SubSeq(TwiceDigits(x.ds), IF x.ds[1] >= 5 THEN 1 ELSE 2,
               IF x.ds[Len(x.ds)] = 5 THEN Len(x.ds) ELSE Len(x.ds) + 1),
        x.pos + (IF x.ds[1] >= 5 THEN 1 ELSE 0))

\* Half a decimal: a digit is halved after taking ten from an odd digit before
\* it.
Halved(x) ==
    LET n == Len(x.ds)
        full == [i \in 1..(n + 1) |->
                    (DigitAt(x.ds, i) + 10 * (DigitAt(x.ds, i - 1) % 2)) \div 2]
    IN Dec(SubSeq(full, IF x.ds[1] = 1 THEN 2 ELSE 1, IF x.ds[n] % 2 = 0 THEN n ELSE n + 1),
           x.pos - (IF x.ds[1] = 1 THEN 1 ELSE 0))

\* x * 2^n and x / 2^n, one half of the steps after the other.
RECURSIVE Times2N(_, _)
Times2N(x, n) ==
    IF n = 0 THEN x
    ELSE IF n = 1 THEN Doubled(x)
    ELSE CHOOSE z \in {Times2N(y, n - (n \div 2)) : y \in {Times2N(x, n \div 2)}} : TRUE
RECURSIVE Div2N(_, _)
Div2N(x, n) ==
    IF n = 0 THEN x
    ELSE IF n = 1 THEN Halved(x)
    ELSE CHOOSE z \in {Div2N(y, n - (n \div 2)) : y \in {Div2N(x, n \div 2)}} : TRUE
Scaled2(x, e) == IF e >= 0 THEN Times2N(x, e) ELSE Div2N(x, -e)

\* a < b for two decimals.
DecLess(a, b) ==
    \/ a.pos < b.pos
    \/ /\ a.pos = b.pos
       /\ \E i \in 1..(IF Len(a.ds) > Len(b.ds) THEN Len(a.ds) ELSE Len(b.ds)) :
             /\ DigitAt(a.ds, i) < DigitAt(b.ds, i)
             /\ \A j \in 1..(i - 1) : DigitAt(a.ds, j) = DigitAt(b.ds, j)

\* An integer given by its digits, plus one and minus one.
RECURSIVE Incremented(_)
Incremented(ds) ==
    IF ds = <<>> THEN <<1>>
    ELSE IF ds[Len(ds)] < 9 THEN [ds EXCEPT ![Len(ds)] = @ + 1]
    ELSE Incremented(SubSeq(ds, 1, Len(ds) - 1)) \o <<0>>
RECURSIVE Decremented(_)
Decremented(ds) ==
    IF ds[Len(ds)] > 0 THEN [ds EXCEPT ![Len(ds)] = @ - 1]
    ELSE Decremented(SubSeq(ds, 1, Len(ds) - 1)) \o <<9>>

\* The decimal of digits d1 ... dn before the point, zeros at either end
\* allowed, the digits not being all 0.
RECURSIVE WithoutZerosAfter(_)
WithoutZerosAfter(ds) ==
    IF ds # <<>> /\ ds[Len(ds)] = 0 THEN WithoutZerosAfter(SubSeq(ds, 1, Len(ds) - 1)) ELSE ds
RECURSIVE DecFrom(_, _)
DecFrom(ds, pos) ==
    IF ds[1] = 0 THEN DecFrom(Tail(ds), pos - 1) ELSE Dec(WithoutZerosAfter(ds), pos)
DecOfInteger(ds) == DecFrom(ds, Len(ds))

\* 2^52 and 2^53: a double is m * 2^e with 2^52 <= m < 2^53 and
\* -1074 <= e <= 971, or with m < 2^52 and e = -1074 (a subnormal).
TwoTo52 == DigitsOf("4503599627370496")
TwoTo53 == DigitsOf("9007199254740992")

\* A lower bound of the number of halvings, or of doublings, that bring v
\* between 2^52 and 2^53: 3.321 < log2(10) < 3.322.
FirstHalvings(v) ==
    IF v.pos <= 17 THEN 0 ELSE (((v.pos - 1) * 3321) \div 1000) - 53
FirstDoublings(v) ==
    LET most == IF v.pos >= 0 THEN 51 - (((v.pos * 3322) \div 1000) + 1)
                ELSE 51 + (((-v.pos) * 3321) \div 1000)
    IN IF v.pos > 15 \/ most < 0 THEN 0
       ELSE IF most > 1074 THEN 1074 ELSE most

\* v = w * 2^e with 2^52 <= w < 2^53, or with w < 2^52 and e = -1074.
RECURSIVE Binade(_, _)
Binade(v, e) ==
    IF ~DecLess(v, Dec(TwoTo53, 16)) THEN Binade(Halved(v), e + 1)
    ELSE IF DecLess(v, Dec(TwoTo52, 16)) /\ e > -1074 THEN Binade(Doubled(v), e - 1)
    ELSE [w |-> v, e |-> e]
BinadeOf(v) ==
    IF FirstHalvings(v) > 0 THEN Binade(Div2N(v, FirstHalvings(v)), FirstHalvings(v))
    ELSE Binade(Times2N(v, FirstDoublings(v)), -FirstDoublings(v))

\* The integer nearest to w, as its digits: the half goes to the even one.
Rounded(w) ==
    LET n == Len(w.ds)
        whole == IF w.pos <= 0 THEN <<0>>
                 ELSE [i \in 1..w.pos |-> DigitAt(w.ds, i)]
        up == /\ w.pos >= 0 /\ n > w.pos
              /\ \/ w.ds[w.pos + 1] > 5
                 \/ /\ w.ds[w.pos + 1] = 5
                    /\ n > w.pos + 1 \/ (w.pos > 0 /\ w.ds[w.pos] % 2 = 1)
    IN IF up THEN Incremented(SubSeq(whole, 1, Len(whole))) ELSE SubSeq(whole, 1, Len(whole))

\* The double nearest to the decimal v, as m and e: m is 0 when v rounds to
\* zero, and e is above 971 when it rounds to infinity.
NearestDouble(v) ==
    LET b == BinadeOf(v)
        m == Rounded(b.w)
    IN IF m = TwoTo53 THEN [m |-> TwoTo52, e |-> b.e + 1] ELSE [m |-> m, e |-> b.e]

\* The decimals that float() reads as the double m * 2^e lie between low and
\* high, the halves to its neighbours, which it reads as this double when m
\* is even; the double below 2^52 * 2^e is half as far as the one above.
DoubleValue(x) == Scaled2(DecOfInteger(x.m), x.e)
HighHalf(x) == Scaled2(DecOfInteger(Incremented(TwiceDigits(x.m))), x.e - 1)
LowHalf(x) ==
    IF x.m = TwoTo52 /\ x.e > -1074
    THEN Scaled2(DecOfInteger(Decremented(TwiceDigits(TwiceDigits(x.m)))), x.e - 2)
    ELSE Scaled2(DecOfInteger(Decremented(TwiceDigits(x.m))), x.e - 1)
ReadsAs(c, low, high, even) ==
    IF even THEN ~DecLess(c, low) /\ ~DecLess(high, c)
    ELSE DecLess(low, c) /\ DecLess(c, high)

\* repr of a double: the decimal of the fewest digits that float() reads as
\* the double, and of those the nearest to it. value is the double, k the
\* number of digits tried.
RECURSIVE Shortest(_, _, _, _, _)
Shortest(value, low, high, even, k) ==
    IF Len(value.ds) <= k THEN value
    ELSE LET first == SubSeq(value.ds, 1, k)
             down == DecFrom(first, value.pos)
             up == DecFrom(Incremented(first), value.pos + Len(Incremented(first)) - k)
             downReads == ReadsAs(down, low, high, even)
             upReads == ReadsAs(up, low, high, even)
             upNearer == \/ value.ds[k + 1] > 5
                         \/ /\ value.ds[k + 1] = 5
                            /\ Len(value.ds) > k + 1 \/ value.ds[k] % 2 = 1
         IN IF downReads /\ upReads THEN (IF upNearer THEN up ELSE down)
            ELSE IF downReads THEN down
            ELSE IF upReads THEN up
            ELSE Shortest(value, low, high, even, k + 1)
ReprOfDouble(x) ==
    Shortest(DoubleValue(x), LowHalf(x), HighHalf(x), x.m[Len(x.m)] % 2 = 0, 1)

\* The float whose repr has the digits 0.digits * 10^pos: n/d where n and d
\* are small enough.
FloatOfRepr(negative, digits, pos) ==
    LET k == Len(digits)
    IN IF k <= 9 /\ pos >= k /\ pos <= 8
       THEN PyFloat((IF negative THEN -1 ELSE 1) * DigitsValue(digits) * Power10(pos - k + 1),
                    10, 0)
       ELSE IF k <= 9 /\ pos < k /\ k - pos <= 9
       THEN PyFloat((IF negative THEN -1 ELSE 1) * DigitsValue(digits), Power10(k - pos), 0)
       ELSE SciFloat(negative, digits, pos)

\* The double of NearestDouble as a float of the model.
FloatOfReprDec(negative, r) == FloatOfRepr(negative, DigitString(r.ds), r.pos)
FloatOfDouble(negative, x) ==
    IF x.m = <<0>> THEN (IF negative THEN NegZero ELSE PyFloat(0, 10, 0))
    ELSE IF x.e > 971 THEN PyInf(negative)
    ELSE FloatOfReprDec(negative, ReprOfDouble(x))

\* The float nearest to the decimal 0.digits * 10^pos, digits without leading
\* zeros. A decimal of 15 digits at most that is not near the largest or the
\* smallest double is the repr of the double nearest to it; any decimal of
\* 10^310 or more is read as inf, any below 10^-324 as zero.
FloatOfDecimal(negative, alldigits, pos) ==
    LET digits == StripTrailingZeros(alldigits)
    IN IF digits = "" \/ pos < -323 THEN (IF negative THEN NegZero ELSE PyFloat(0, 10, 0))
       ELSE IF pos > 310 THEN PyInf(negative)
       ELSE IF Len(digits) <= 15 /\ pos >= -300 /\ pos <= 300
       THEN FloatOfRepr(negative, digits, pos)
       ELSE FloatOfDouble(negative, NearestDouble(Dec(DigitsOf(digits), pos)))

\* The value of the exponent of a float literal, [sign] digits. An exponent
\* of more than nine digits counts as 10^9 - 1: it moves the point past the
\* digits of any mantissa of fewer than 10^9 - 400 digits just the same.
ExponentValue(exponent) ==
    LET expSigned == exponent # "" /\ Head(exponent) \in {"-", "+"}
        expShort == StripLeadingZeros(WithoutUnderscores(IF expSigned THEN Tail(exponent)
                                                         ELSE exponent))
    IN (IF expSigned /\ Head(exponent) = "-" THEN -1 ELSE 1)
           * (IF Len(expShort) > 9 THEN 999999999 ELSE DigitsValue(expShort))

\* Whether the exponent of a float literal is [sign] and a digit part.
IsExponent(exponent) ==
    IF exponent # "" /\ Head(exponent) \in {"-", "+"}
    THEN Tail(exponent) # "" /\ IsDigitPart(Tail(exponent))
    ELSE exponent # "" /\ IsDigitPart(exponent)

\* The float of a literal whose digits before and after the point are whole
\* and frac, times ten to the power expValue.
FloatOfDigits(negative, whole, frac, expValue) ==
    FloatOfDecimal(negative, StripLeadingZeros(whole \o frac),
                   Len(StripLeadingZeros(whole \o frac)) - Len(frac) + expValue)

\* float() of [sign] mantissa [e exponent]: the mantissa is digits [. [digits]]
\* or . digits; anything else is no number.
FloatOfLiteral(negative, mantissa, hasExponent, exponent) ==
    LET dot == IndexOf(".", mantissa)
        whole == IF dot = 0 THEN mantissa ELSE SubSeq(mantissa, 1, dot - 1)
        frac == IF dot = 0 THEN "" ELSE SubSeq(mantissa, dot + 1, Len(mantissa))
    IN IF /\ whole = "" \/ IsDigitPart(whole)
          /\ frac = "" \/ IsDigitPart(frac)
          /\ whole # "" \/ frac # ""
          /\ ~hasExponent \/ IsExponent(exponent)
       THEN Ok(FloatOfDigits(negative, WithoutUnderscores(whole), WithoutUnderscores(frac),
                             ExponentValue(exponent)))
       ELSE Raised("ValueError")

\* float() of a text after its sign: inf, infinity or nan in any case of the
\* letters, or a literal with its exponent after the first e or E.
FloatOfBody(negative, body) ==
    LET ePos == IF IndexOf("e", body) > 0 THEN IndexOf("e", body) ELSE IndexOf("E", body)
    IN IF Len(body) <= 8 /\ Lower(body) \in {"inf", "infinity"} THEN Ok(PyInf(negative))
       ELSE IF Len(body) <= 8 /\ Lower(body) = "nan" THEN Ok(PyNaN)
       ELSE IF ePos = 0 THEN FloatOfLiteral(negative, body, FALSE, "")
       ELSE FloatOfLiteral(negative, SubSeq(body, 1, ePos - 1), TRUE,
                           SubSeq(body, ePos + 1, Len(body)))

\* The whitespace that float() strips from either end of a text: the ASCII
\* whitespace, and U+0085 and U+00A0, which it reads as spaces. The separators
\* U+001C to U+001F stay, and make the text no number.
FloatSpaceChars == SpaceChars \ {Char(ControlSpaces, i) : i \in 2..5}
FloatStrip(s) ==
    IF \A i \in 1..Len(s) : Char(s, i) \in FloatSpaceChars THEN ""
    ELSE SubSeq(s,
                CHOOSE i \in 1..Len(s) :
                    Char(s, i) \notin FloatSpaceChars
                        /\ \A j \in 1..(i - 1) : Char(s, j) \in FloatSpaceChars,
                CHOOSE i \in 1..Len(s) :
                    Char(s, i) \notin FloatSpaceChars
                        /\ \A j \in (i + 1)..Len(s) : Char(s, j) \in FloatSpaceChars)

\* float() of a text stripped of whitespace: [sign] and the body.
FloatOfText(s) ==
    IF s # "" /\ Head(s) \in {"-", "+"} THEN FloatOfBody(Head(s) = "-", Tail(s))
    ELSE FloatOfBody(FALSE, s)

\* float(x) as the skip branch of process_category calls it: on the int 0, on
\* None, and on the text of a cell. The text is stripped of the whitespace of
\* float() and
\* read as [sign] inf | infinity | nan, in any case of the letters, or as
\* [sign] digits [. [digits]] [exponent] or [sign] . digits [exponent], the
\* exponent being e or E, [sign], digits; anything else is no number.
PyFloatOf(x) ==
    IF x.t = "int" THEN Ok(PyFloat(10 * x.v, 10, 0))
    ELSE IF x.t # "str" THEN Raised("TypeError")
    ELSE FloatOfText(FloatStrip(x.v))

\* The catalog file catalog.csv: whether it exists, and its rows in order, a
\* row being the dict csv.DictReader makes of it (field -> cell text, Missing
\* for a column the file does not have).
NoCatalog == [exists |-> FALSE, rows |-> <<>>]
Catalog(rows) == [exists |-> TRUE, rows |-> rows]

\* load_existing_csv(csv_path): the dict filename -> row of the catalog, a
\* later row replacing an earlier one of the same filename, a row without a
\* filename being left out.
RECURSIVE LoadRows(_)
LoadRows(rows) ==
    IF rows = <<>> THEN <<>>
    ELSE LET row == rows[Len(rows)]
             before == LoadRows(SubSeq(rows, 1, Len(rows) - 1))
             filename == Get(row, "filename", PyStr(""))
         IN IF Truthy(filename) THEN (filename.v :> row) @@ before ELSE before

load_existing_csv(csv) == IF ~csv.exists THEN <<>> ELSE LoadRows(csv.rows)

\* The mutant loads the catalog in a forced run too.
CacheAlwaysLoaded(force, csv) == load_existing_csv(csv)

\* cache = {} if force else load_existing_csv(csv_path)
InitialCache(force, csv) == IF force THEN <<>> ELSE load_existing_csv(csv)

\* cache.get(filename)
CacheGet(cache, filename) == IF filename \in DOMAIN cache THEN cache[filename] ELSE PyNone

\* The mutant also asks for a first theme.
is_book_complete_with_theme(cached_row) ==
    IF cached_row = PyNone THEN FALSE
    ELSE IF Get(cached_row, "file_exists", PyNone) # PyStr("True") THEN FALSE
    ELSE IF ~Truthy(Get(cached_row, "grade_level", PyNone)) THEN FALSE
    ELSE Truthy(Get(cached_row, "theme_1", PyNone))

\* is_book_complete(cached_row)
is_book_complete(cached_row) ==
    IF cached_row = PyNone THEN FALSE
    ELSE IF Get(cached_row, "file_exists", PyNone) # PyStr("True") THEN FALSE
    ELSE IF ~Truthy(Get(cached_row, "grade_level", PyNone)) THEN FALSE
    ELSE TRUE

\* [row.get(f'theme_{j}', '') for j in range(1, 6) if row.get(f'theme_{j}')]
RECURSIVE CachedThemes(_, _)
CachedThemes(row, fields) ==
    IF fields = <<>> THEN <<>>
    ELSE (IF Truthy(Get(row, Head(fields), PyNone))
          THEN <<Get(row, Head(fields), PyStr("")).v>> ELSE <<>>)
             \o CachedThemes(row, Tail(fields))

\* category and folder_name of process_category, from the configuration file.
Category == "Sea Stories"
FolderName == "sea_stories"

\* The text must be longer than this for process_category to analyse it.
MinTextChars == 500

\* The mutant takes file_exists of a skipped book from the configuration (the
\* book has a url) and not from the cached row.
CachedResultFileFromConfig(row, book) ==
    LET size == PyFloatOf(Get(row, "file_size_kb", PyInt(0)))
        grade == IF Truthy(Get(row, "grade_level", PyNone))
                 THEN PyFloatOf(row["grade_level"]) ELSE Ok(PyNone)
    IN IF size.raised THEN size
       ELSE IF grade.raised THEN grade
       ELSE Ok([category |-> Get(row, "category", PyStr(Category)),
                folder |-> Get(row, "folder", PyStr(FolderName)),
                filename |-> PyStr(book.filename),
                expected_title |-> Get(row, "expected_title", book.title),
                expected_author |-> Get(row, "expected_author", book.author),
                gutenberg_id |-> Get(row, "gutenberg_id", Get(book, "gutenberg_id", PyStr(""))),
                note |-> Get(row, "note", Get(book, "note", PyStr(""))),
                file_exists |-> PyBool(Truthy(Get(book, "url", PyStr("")))),
                file_size_kb |-> size.value,
                download_source |-> Get(row, "download_source", PyStr("")),
                download_error |-> Get(row, "download_error", PyStr("")),
                actual_title |-> Get(row, "actual_title", PyStr("")),
                actual_author |-> Get(row, "actual_author", PyStr("")),
                title_match |-> PyBool(Get(row, "title_match", PyNone) = PyStr("True")),
                author_match |-> PyBool(Get(row, "author_match", PyNone) = PyStr("True")),
                language |-> Get(row, "language", PyStr("")),
                grade_level |-> grade.value,
                cefr |-> Get(row, "cefr", PyStr("")),
                themes |-> CachedThemes(row, ThemeFields)])

\* The skip branch of process_category: the result built from the cached row,
\* or the exception a float() of it raises.
CachedResult(row, book) ==
    LET size == PyFloatOf(Get(row, "file_size_kb", PyInt(0)))
        grade == IF Truthy(Get(row, "grade_level", PyNone))
                 THEN PyFloatOf(row["grade_level"]) ELSE Ok(PyNone)
    IN IF size.raised THEN size
       ELSE IF grade.raised THEN grade
       ELSE Ok([category |-> Get(row, "category", PyStr(Category)),
                folder |-> Get(row, "folder", PyStr(FolderName)),
                filename |-> PyStr(book.filename),
                expected_title |-> Get(row, "expected_title", book.title),
                expected_author |-> Get(row, "expected_author", book.author),
                gutenberg_id |-> Get(row, "gutenberg_id", Get(book, "gutenberg_id", PyStr(""))),
                note |-> Get(row, "note", Get(book, "note", PyStr(""))),
                file_exists |-> PyBool(Get(row, "file_exists", PyNone) = PyStr("True")),
                file_size_kb |-> size.value,
                download_source |-> Get(row, "download_source", PyStr("")),
                download_error |-> Get(row, "download_error", PyStr("")),
                actual_title |-> Get(row, "actual_title", PyStr("")),
                actual_author |-> Get(row, "actual_author", PyStr("")),
                title_match |-> PyBool(Get(row, "title_match", PyNone) = PyStr("True")),
                author_match |-> PyBool(Get(row, "author_match", PyNone) = PyStr("True")),
                language |-> Get(row, "language", PyStr("")),
                grade_level |-> grade.value,
                cefr |-> Get(row, "cefr", PyStr("")),
                themes |-> CachedThemes(row, ThemeFields)])

\* The result dict a book starts with when it is processed.
FreshResult(book) ==
    [category |-> PyStr(Category),
     folder |-> PyStr(FolderName),
     filename |-> PyStr(book.filename),
     expected_title |-> book.title,
     expected_author |-> book.author,
     gutenberg_id |-> Get(book, "gutenberg_id", PyStr("")),
     note |-> Get(book, "note", PyStr("")),
     file_exists |-> PyBool(FALSE),
     file_size_kb |-> PyInt(0),
     download_source |-> PyNone,
     download_error |-> PyNone,
     actual_title |-> PyNone,
     actual_author |-> PyNone,
     title_match |-> PyNone,
     author_match |-> PyNone,
     language |-> PyNone,
     grade_level |-> PyNone,
     cefr |-> PyNone,
     themes |-> <<>>]

\* Step 1 of process_category: what the status dict of download_book sets.
AfterDownload(result, dl_result) ==
    IF dl_result.downloaded THEN [result EXCEPT !.download_source = dl_result.source]
    ELSE IF dl_result.exists THEN result
    ELSE IF Truthy(dl_result.error) THEN [result EXCEPT !.download_error = dl_result.error]
    ELSE result

\* verify_metadata called with the values of the configuration: normalize
\* calls s.lower() on an expected value that is truthy and not a string, which
\* raises, once the archive has given a title and an author.
VerifyOutcome(expected_title, expected_author, actual_metadata) ==
    IF /\ Truthy(actual_metadata.title) /\ Truthy(actual_metadata.author)
       /\ \/ Truthy(expected_title) /\ expected_title.t # "str"
          \/ Truthy(expected_author) /\ expected_author.t # "str"
    THEN Raised("AttributeError")
    ELSE Ok(verify_metadata(expected_title, expected_author, actual_metadata))

\* The mutant analyses every text that is not empty (no len(text) > 500).
AnalysisWithoutMinimum(text, epub_meta, ts) ==
    IF text # <<>>
    THEN LET lang == IF Truthy(epub_meta.language) THEN epub_meta.language
                     ELSE PyStr(detect_language(text))
         IN {[language |-> lang,
              grade_level |-> difficulty.grade_level,
              cefr |-> difficulty.cefr,
              themes |-> detect_themes(text, lang, 5)] :
                difficulty \in calculate_reading_difficulty(text, lang, ts)}
    ELSE {}

\* Step 4 of process_category on the extracted text: the values it can set in
\* the result, none when the text is not long enough to be analysed.
Analysis(text, epub_meta, ts) ==
    IF text # <<>> /\ TextLen(text) > MinTextChars
    THEN LET lang == IF Truthy(epub_meta.language) THEN epub_meta.language
                     ELSE PyStr(detect_language(text))
         IN {[language |-> lang,
              grade_level |-> difficulty.grade_level,
              cefr |-> difficulty.cefr,
              themes |-> detect_themes(text, lang, 5)] :
                difficulty \in calculate_reading_difficulty(text, lang, ts)}
    ELSE {}

\* The results step 4 can leave.
Analysed(result, analyses) ==
    IF analyses = {} THEN {result}
    ELSE {[result EXCEPT !.language = a.language,
                         !.grade_level = a.grade_level,
                         !.cefr = a.cefr,
                         !.themes = a.themes] : a \in analyses}

\* The position of a theme column among the five.
ThemeSlot(field) == CHOOSE j \in DOMAIN ThemeFields : ThemeFields[j] = field

\* The row write_csv writes for one result, as csv.DictReader reads it back.
CsvRow(r) ==
    [k \in Range(Fieldnames) |->
        IF k \in Range(ThemeFields)
        THEN PyStr(IF ThemeSlot(k) <= Len(r.themes) THEN r.themes[ThemeSlot(k)] ELSE "")
        ELSE PyStr(CsvCell(r[k]))]

\* write_csv(results, output_path): the catalog file afterwards.
write_csv(results, csv) ==
    IF results = <<>> THEN csv
    ELSE Catalog([i \in DOMAIN results |-> CsvRow(results[i])])

-----------------------------------------------------------------------------
(* Specification of the matcher: one call of verify_metadata per behaviour *)

\* Every string of at most n tokens of the pool, joined by single spaces.
RECURSIVE TokenStrings(_, _)
TokenStrings(pool, n) ==
    IF n = 0 THEN {""}
    ELSE LET shorter == TokenStrings(pool, n - 1)
         IN shorter \cup {IF s = "" THEN w ELSE s \o " " \o w : s \in shorter, w \in pool}

\* The title pool has three distinct words, one of them in two spellings, and a
\* token of punctuation only; the author pool has a 2-character token, two long
\* tokens one inside the other, and a long token unrelated to both.
TitleTokens == {"War", "war", "and", "Peace", "!"}
AuthorTokens == {"Du", "Ann", "anna", "Twain"}

TitleStrings == TokenStrings(TitleTokens, MaxWords)
AuthorStrings == TokenStrings(AuthorTokens, MaxWords)

\* The fixed value of the field that a call does not vary.
TitleProbes == {"Emma"}
AuthorProbes == {"Li Po"}

Absent(strings) == {PyNone} \cup {PyStr(s) : s \in strings}

MatchInputs ==
    [et : TitleStrings, ea : AuthorProbes,
     title : Absent(TitleStrings), author : Absent(AuthorProbes)]
    \cup
    [et : TitleProbes, ea : AuthorStrings,
     title : Absent(TitleProbes), author : Absent(AuthorStrings)]

\* The components a specification does not exercise stay as they are here.
MatchIdle == m_pc = "idle" /\ m_in = PyNone /\ m_out = PyNone
BandIdle == b_pc = "idle" /\ b_in = <<>> /\ b_out = <<>>
ScoreIdle == d_in = <<>> /\ d_out = <<>>
InspectIdle == i_in = PyNone /\ i_meta = PyNone /\ i_text = PyNone
PipelineIdle ==
    /\ p_books = <<>> /\ p_textstat = FALSE /\ p_disk = <<>>
    /\ p_csv = NoCatalog /\ p_origin = "none"
    /\ p_pc = "off" /\ p_runs = 0
    /\ p_force = FALSE /\ p_cache = <<>> /\ p_results = <<>> /\ p_log = <<>>
    /\ p_prior = [catalog |-> NoCatalog, origin |-> "none"]
    /\ p_dl = PyNone

MatchInit ==
    /\ m_pc = "call"
    /\ m_in \in MatchInputs
    /\ m_out = PyNone
    /\ BandIdle /\ ScoreIdle /\ InspectIdle /\ PipelineIdle

\* verify_metadata(expected_title, expected_author, actual_metadata) returns.
Verify ==
    /\ m_pc = "call"
    /\ m_out' = verify_metadata(PyStr(m_in.et), PyStr(m_in.ea),
                                [title |-> m_in.title, author |-> m_in.author])
    /\ m_pc' = "done"
    /\ UNCHANGED <<m_in, bandVars, scoreVars, inspectVars, pipelineVars>>

MatchNext == Verify

SpecMatch == MatchInit /\ [][MatchNext]_vars

\* The normalized word sets the title rule compares.
ExpectedTitleWords == Range(Split(normalize(PyStr(m_in.et))))
ActualTitleWords == Range(Split(normalize(m_in.title)))
ActualPresent == Truthy(m_in.title) /\ Truthy(m_in.author)

\* C6 (as claimed): on exact input, verify_metadata(T, A, {title: T, author: A})
\* with non-empty T and A returns title_match = true and author_match = true.
C6_ExactInputMatches ==
    (m_pc = "done" /\ m_in.et # "" /\ m_in.ea # ""
        /\ m_in.title = PyStr(m_in.et) /\ m_in.author = PyStr(m_in.ea))
    => (m_out.title_match /\ m_out.author_match)

\* C7 (as claimed): title_match is true exactly when both actual fields are
\* present and the common words number at least min(2, size of the expected set).
C7_TitleRuleAsClaimed ==
    m_pc = "done" =>
        (m_out.title_match <=>
            (ActualPresent
             /\ Cardinality(ExpectedTitleWords \cap ActualTitleWords)
                    >= Min(2, Cardinality(ExpectedTitleWords))))

\* C7 (amended): title_match is true exactly when both actual fields are
\* present, the normalized expected title is not empty, and the common words
\* number at least min(2, size of the expected word set).
C7_TitleRule ==
    m_pc = "done" =>
        (m_out.title_match <=>
            (ActualPresent
             /\ ExpectedTitleWords # {}
             /\ Cardinality(ExpectedTitleWords \cap ActualTitleWords)
                    >= Min(2, Cardinality(ExpectedTitleWords))))

\* C7 witness: a three-word expected title matched on exactly two common
\* words, fewer than the size of the expected word set.
C7_Witness ==
    /\ m_pc = "done"
    /\ m_out.title_match
    /\ Cardinality(ExpectedTitleWords) = 3
    /\ Cardinality(ExpectedTitleWords \cap ActualTitleWords) = 2

\* The same three-word expected title with one common word only: no match.
C7_OneCommonWord ==
    /\ m_pc = "done"
    /\ ~m_out.title_match
    /\ ActualPresent
    /\ Cardinality(ExpectedTitleWords) = 3
    /\ Cardinality(ExpectedTitleWords \cap ActualTitleWords) = 1

\* Tokens of a normalized author longer than 2 characters.
LongTokens(norm) == {w \in Range(Split(norm)) : Len(w) > 2}

\* C8: author_match is true exactly when both actual fields are present and
\* some expected-author token longer than 2 characters and some actual-author
\* token longer than 2 characters are substrings one of the other.
C8_AuthorRule ==
    m_pc = "done" =>
        (m_out.author_match <=>
            (ActualPresent
             /\ \E ep \in LongTokens(normalize(PyStr(m_in.ea))),
                   ap \in LongTokens(normalize(m_in.author)) :
                    IsSubstr(ep, ap) \/ IsSubstr(ap, ep)))

\* C8 witness: both authors have a token longer than 2 characters, neither
\* inside the other, beside a 2-character token that is equal on both sides:
\* no match.
C8_Witness ==
    /\ m_pc = "done"
    /\ ~m_out.author_match
    /\ m_in.ea = "Du Twain"
    /\ m_in.author = PyStr("Du Ann")
    /\ LongTokens(normalize(PyStr(m_in.ea))) = {"twain"}
    /\ LongTokens(normalize(m_in.author)) = {"ann"}

\* A match through a proper substring, beside an unrelated long token.
C8_SubstringMatch ==
    /\ m_pc = "done"
    /\ m_out.author_match
    /\ m_in.ea = "Twain anna"
    /\ m_in.author = PyStr("Du Ann")

-----------------------------------------------------------------------------
(* Specification of the band mapping: grade_to_cefr on two grades *)

\* The highest grade passed to grade_to_cefr, in tenths (30.0).
MaxGradeTenths == 300

\* The pairs of grades passed: two grades of [0, 30] in tenths, or two nulls.
BandInit ==
    /\ b_pc = "call"
    /\ b_in \in {<<PyNone, PyNone>>}
                 \cup {<<Tenths(lo), Tenths(hi)>> :
                          lo \in 0..MaxGradeTenths, hi \in 0..MaxGradeTenths}
    /\ b_out = <<>>
    /\ MatchIdle /\ ScoreIdle /\ InspectIdle /\ PipelineIdle

\* grade_to_cefr returns for the two grades.
Band ==
    /\ b_pc = "call"
    /\ b_out' = <<grade_to_cefr(b_in[1]), grade_to_cefr(b_in[2])>>
    /\ b_pc' = "done"
    /\ UNCHANGED <<b_in, matchVars, scoreVars, inspectVars, pipelineVars>>

BandNext == Band

SpecBand == BandInit /\ [][BandNext]_vars

BandNames == <<"A1", "A2", "B1", "B2", "C1", "C2">>
BandRank(band) == CHOOSE i \in DOMAIN BandNames : BandNames[i] = band.v

\* The band the claim assigns to a grade given in tenths.
ClaimedBand(k) ==
    IF k <= 40 THEN "A1" ELSE IF k <= 60 THEN "A2" ELSE IF k <= 80 THEN "B1"
    ELSE IF k <= 100 THEN "B2" ELSE IF k <= 130 THEN "C1" ELSE "C2"

\* C9: for every grade in [0, 30] in steps of 0.1 grade_to_cefr returns one of
\* A1..C2 with inclusive upper bounds 4, 6, 8, 10, 13 (4.0 -> A1, 4.1 -> A2,
\* 13.0 -> C1, 13.1 -> C2); the mapping is monotonic non-decreasing in the
\* grade; a null grade maps to a null band.
C9_BandMapping ==
    b_pc = "done" =>
        /\ b_in[1] = PyNone => b_out[1] = PyNone
        /\ b_in[1] # PyNone =>
              /\ b_out[1] = PyStr(ClaimedBand(b_in[1].n))
              /\ b_out[2] = PyStr(ClaimedBand(b_in[2].n))
              /\ b_in[1].n = 40 => b_out[1].v = "A1"
              /\ b_in[1].n = 41 => b_out[1].v = "A2"
              /\ b_in[1].n = 130 => b_out[1].v = "C1"
              /\ b_in[1].n = 131 => b_out[1].v = "C2"
              /\ b_in[1].n <= b_in[2].n => BandRank(b_out[1]) <= BandRank(b_out[2])

\* C9 witness: the two grades around the C1/C2 boundary, mapped.
C9_Witness ==
    /\ b_pc = "done"
    /\ b_in = <<Tenths(130), Tenths(131)>>
    /\ b_out = <<PyStr("C1"), PyStr("C2")>>

-----------------------------------------------------------------------------
(* Specification of the fallback grade: calculate_reading_difficulty on    *)
(* two texts that differ in their syllable count only                      *)

\* Word counts of the texts: the least the manual tier accepts, and one long
\* enough for a single syllable to move the grade by less than a tenth.
MonoWordCounts == {10, 11, 200}

\* A text of at least 100 characters with the given counts and no keyword.
PlainText(terms, words, syll) ==
    <<[id |-> "plain", len |-> 100 + 6 * words, terms |-> terms, words |-> words,
       rawwords |-> words, syll |-> syll, occ |-> <<>>, kw |-> <<>>,
       head |-> Edge("x", 100 + 6 * words), tail |-> Edge("x", 100 + 6 * words)]>>

MonoInputs ==
    {<<[text |-> PlainText(st, w, w + x1), lang |-> PyStr("en"), ts |-> TextstatUnavailable],
       [text |-> PlainText(st, w, w + x2), lang |-> PyStr("en"), ts |-> TextstatUnavailable]>> :
        st \in 0..MaxSentences, w \in MonoWordCounts,
        x1 \in 0..MaxExtraSyllables, x2 \in 0..MaxExtraSyllables}

MonoInit ==
    /\ d_in \in MonoInputs
    /\ d_out = <<>>
    /\ MatchIdle /\ BandIdle /\ InspectIdle /\ PipelineIdle

\* The next call of calculate_reading_difficulty returns.
Score ==
    /\ Len(d_out) < Len(d_in)
    /\ LET call == d_in[Len(d_out) + 1]
       IN \E result \in calculate_reading_difficulty(call.text, call.lang, call.ts) :
              d_out' = Append(d_out, result)
    /\ UNCHANGED <<d_in, matchVars, bandVars, inspectVars, pipelineVars>>

MonoNext == Score

SpecMono == MonoInit /\ [][MonoNext]_vars

\* The value of a reported grade_level (the int 0 or a float of tenths), in tenths.
GradeTenths(g) == IF g.t = "int" THEN 10 * g.v ELSE g.n

\* Both calls made, on texts of equal sentence and word counts (words >= 10),
\* the first with more syllables than the second.
MonoCase ==
    /\ Len(d_out) = 2
    /\ TextSum(d_in[1].text, "words") >= 10
    /\ TextSum(d_in[1].text, "words") = TextSum(d_in[2].text, "words")
    /\ TextSum(d_in[1].text, "terms") = TextSum(d_in[2].text, "terms")
    /\ TextSum(d_in[1].text, "syll") > TextSum(d_in[2].text, "syll")

\* C10 (as claimed): with more syllables for the same sentence and word counts
\* the reported fallback grade_level is strictly greater.
C10_StrictlyGreater ==
    MonoCase => GradeTenths(d_out[1].grade_level) > GradeTenths(d_out[2].grade_level)

\* C10 (amended): with more syllables for the same sentence and word counts the
\* reported fallback grade_level is greater than or equal.
C10_NotSmaller ==
    MonoCase => GradeTenths(d_out[1].grade_level) >= GradeTenths(d_out[2].grade_level)

\* C10 witness: two such texts whose reported grades differ.
C10_Witness ==
    /\ MonoCase
    /\ GradeTenths(d_out[1].grade_level) > GradeTenths(d_out[2].grade_level)
    /\ GradeTenths(d_out[2].grade_level) > 0

-----------------------------------------------------------------------------
(* Specification of the inspector: extract_epub_metadata and               *)
(* extract_text_from_epub on one archive                                   *)

MkChunk(id, len, words) ==
    LET lower == Filler("x ", words - 1) \o Filler("x", len - 2 * (words - 1) - 1) \o "."
    IN [id |-> id, len |-> len, terms |-> 1, words |-> words, rawwords |-> words,
        syll |-> words, occ |-> <<>>, kw |-> <<>>,
        head |-> SubSeq(lower, 1, Min(len, EdgeLen)),
        tail |-> SubSeq(lower, (IF len <= EdgeLen THEN 0 ELSE len - EdgeLen) + 1, len)]

StartTag(tag) == [k |-> "start", tag |-> tag]
EndTag(tag) == [k |-> "end", tag |-> tag]
Data(chunk) == [k |-> "data", chunk |-> chunk]

ManifestEntry(elems, readable) ==
    [readable |-> readable, utf8 |-> TRUE, fullpaths |-> <<>>, elems |-> elems,
     events |-> <<>>, feed_ok |-> TRUE]
ContainerEntry(fullpaths, utf8) ==
    [readable |-> TRUE, utf8 |-> utf8, fullpaths |-> fullpaths, elems |-> <<>>,
     events |-> <<>>, feed_ok |-> TRUE]
DocumentEntry(name, readable, feed_ok) ==
    [readable |-> readable, utf8 |-> TRUE, fullpaths |-> <<>>, elems |-> <<>>,
     events |-> <<StartTag("head"), Data(MkChunk(name \o "#title", 9, 2)), EndTag("head"),
                  StartTag("P"), Data(MkChunk(name \o "#body", 40, 8)), EndTag("P"),
                  StartTag("script"), Data(MkChunk(name \o "#code", 30, 3)),
                  EndTag("script")>>,
     feed_ok |-> feed_ok]

Elem(tag, text) == [tag |-> tag, text |-> text]
FullManifest ==
    <<Elem("dc:title", " Moby Dick "), Elem("DC:Creator", "Herman Melville"),
      Elem("dc:language", "EN-us"), Elem("dc:title", "Second Title")>>
PartManifest == <<Elem("dc:title", ""), Elem("dc:title", "The Whale"), Elem("dc:date", "1851")>>

\* The manifests an archive may hold: name -> entry.
ManifestVariants ==
    [none |-> <<>>,
     full |-> ("OEBPS/content.opf" :> ManifestEntry(FullManifest, TRUE)),
     part |-> ("content.opf" :> ManifestEntry(PartManifest, TRUE)),
     unreadable |-> ("content.opf" :> ManifestEntry(FullManifest, FALSE)),
     uppercase |-> ("CONTENT.OPF" :> ManifestEntry(FullManifest, TRUE))]

\* The META-INF/container.xml an archive may hold.
ContainerVariants ==
    [none |-> <<>>,
     undecodable |->
         ("META-INF/container.xml" :> ContainerEntry(<<"OEBPS/content.opf">>, FALSE)),
     nopath |-> ("META-INF/container.xml" :> ContainerEntry(<<>>, TRUE)),
     missing |-> ("META-INF/container.xml" :> ContainerEntry(<<"OPS/package.opf">>, TRUE)),
     second |-> ("META-INF/container.xml"
                     :> ContainerEntry(<<"book.pdf", ".opf", "CONTENT.OPF", "x.opf">>, TRUE)),
     uppercase |-> ("META-INF/container.xml" :> ContainerEntry(<<"CONTENT.OPF">>, TRUE))]

DocNames == <<"ch2.xhtml", "ch1.html", "toc.htm", "Ch3.htm", "notes.txt">>
DocCount == Min(MaxDocs, Len(DocNames))
DocStates == {"absent", "ok", "unreadable", "unparsable"}

RECURSIVE DocEntries(_, _)
DocEntries(states, i) ==
    IF i = 0 THEN <<>>
    ELSE IF states[i] = "absent" THEN DocEntries(states, i - 1)
    ELSE (DocNames[i] :> DocumentEntry(DocNames[i], states[i] # "unreadable",
                                       states[i] # "unparsable"))
             @@ DocEntries(states, i - 1)

RECURSIVE NamesOf(_, _)
NamesOf(candidates, entries) ==
    IF candidates = <<>> THEN <<>>
    ELSE (IF Head(candidates) \in DOMAIN entries THEN <<Head(candidates)>> ELSE <<>>)
             \o NamesOf(Tail(candidates), entries)

\* The order of the entries in the archives of the model.
ArchiveOrder ==
    <<"META-INF/container.xml">> \o DocNames \o <<"CONTENT.OPF", "content.opf", "OEBPS/content.opf">>

ZipArchive(entries) ==
    [zip |-> TRUE, names |-> NamesOf(ArchiveOrder, entries), entries |-> entries]

\* A file that is no ZIP archive.
NotAZip == [zip |-> FALSE, names |-> <<>>, entries |-> <<>>]

\* container.xml is only read when no entry name ends in .opf.
ManifestWithContainer ==
    ({"full", "part", "unreadable"} \X {"none"})
        \cup ({"none", "uppercase"} \X DOMAIN ContainerVariants)

InspectInit ==
    /\ i_in \in {NotAZip}
                 \cup {ZipArchive(ManifestVariants[mc[1]] @@ ContainerVariants[mc[2]]
                                      @@ DocEntries(ds, DocCount)) :
                          mc \in ManifestWithContainer, ds \in [1..DocCount -> DocStates]}
    /\ i_meta = PyNone
    /\ i_text = PyNone
    /\ MatchIdle /\ BandIdle /\ ScoreIdle /\ PipelineIdle

\* extract_epub_metadata(epub_path) is called and ends.
InspectMetadata ==
    /\ i_meta = PyNone
    /\ i_meta' = extract_epub_metadata(i_in)
    /\ UNCHANGED <<i_in, i_text, matchVars, bandVars, scoreVars, pipelineVars>>

\* extract_text_from_epub(epub_path) is called and ends.
InspectText ==
    /\ i_text = PyNone
    /\ i_text' = extract_text_from_epub(i_in, DefaultMaxChars)
    /\ UNCHANGED <<i_in, i_meta, matchVars, bandVars, scoreVars, pipelineVars>>

InspectNext == InspectMetadata \/ InspectText

SpecInspect == InspectInit /\ [][InspectNext]_vars

\* The texts of the elements <tag> of all the entries of the archive.
ElementTexts(archive, tag) ==
    UNION {{archive.entries[n].elems[i].text :
               i \in {j \in DOMAIN archive.entries[n].elems :
                          Lower(archive.entries[n].elems[j].tag) = tag}} :
           n \in DOMAIN archive.entries}

ChunkIds(text) == {text[i].id : i \in DOMAIN text}

\* The content documents of the archive that can be read and parsed, and the
\* others.
GoodDocuments(archive) ==
    {n \in DOMAIN archive.entries :
        IsContentDocument(n) /\ archive.entries[n].readable /\ archive.entries[n].feed_ok}
BadDocuments(archive) ==
    {n \in DOMAIN archive.entries :
        IsContentDocument(n) /\ ~(archive.entries[n].readable /\ archive.entries[n].feed_ok)}

\* C5: the inspector never raises.  extract_epub_metadata returns a dict whose
\* title, author and language are each None or a value found in the manifest
\* (stripped; the language cut to two lowercased characters), whatever the
\* file is; extract_text_from_epub returns a text, empty when the archive
\* cannot be opened, that holds the text of every readable content document
\* and nothing of the documents that fail.
C5_InspectorNeverRaises ==
    /\ i_meta # PyNone =>
          /\ ~i_meta.raised
          /\ \/ i_meta.value.title = PyNone
             \/ \E t \in ElementTexts(i_in, "dc:title") : i_meta.value.title = PyStr(Strip(t))
          /\ \/ i_meta.value.author = PyNone
             \/ \E t \in ElementTexts(i_in, "dc:creator") :
                    i_meta.value.author = PyStr(Strip(t))
          /\ \/ i_meta.value.language = PyNone
             \/ \E t \in ElementTexts(i_in, "dc:language") :
                    /\ Len(i_meta.value.language.v) <= 2
                    /\ i_meta.value.language.v = Lower(SubSeq(Strip(t), 1, Len(i_meta.value.language.v)))
          /\ ~i_in.zip => i_meta.value = NoMetadata
    /\ i_text # PyNone =>
          /\ ~i_text.raised
          /\ ~i_in.zip => i_text.value = <<>>
          /\ \A n \in GoodDocuments(i_in) : (n \o "#body") \in ChunkIds(i_text.value)
          /\ \A n \in BadDocuments(i_in) : (n \o "#body") \notin ChunkIds(i_text.value)

\* C5 witness: an archive whose container.xml points to a missing manifest
\* and whose first content document cannot be parsed; both extractors have
\* returned, the metadata all None, the text holding the later document.
C5_Witness ==
    /\ i_meta # PyNone /\ i_text # PyNone
    /\ "OPS/package.opf" \notin DOMAIN i_in.entries
    /\ "META-INF/container.xml" \in DOMAIN i_in.entries
    /\ i_in.entries["META-INF/container.xml"].fullpaths = <<"OPS/package.opf">>
    /\ i_meta.value = NoMetadata
    /\ "ch1.html" \in BadDocuments(i_in)
    /\ "ch2.xhtml#body" \in ChunkIds(i_text.value)

\* A manifest was found and read: the title is the first non-empty dc:title.
C5_WitnessManifest ==
    /\ i_meta # PyNone
    /\ i_meta.value.title = PyStr("The Whale")
    /\ i_meta.value.author = PyNone

-----------------------------------------------------------------------------
(* Specification of the pipeline: runs of main on one category, each run   *)
(* being process_category followed by write_csv, over a folder and a       *)
(* catalog that the runs share                                              *)

\* The longest configuration, in books.
MaxBooks == 2

\* The most URLs search_internet_archive returns for a book.
MaxUrls == 2

\* The runs of the program in one behaviour.
MaxRuns == 2

\* Books of a configuration file: one with a Gutenberg URL, one to be found on
\* the Internet Archive only, one with a direct URL whose title YAML reads as
\* the integer 1984, and one marked as unavailable by leaving the keys out.
MobyBook ==
    [title |-> PyStr("Moby Dick"), author |-> PyStr("Herman Melville"),
     filename |-> "Moby_Dick.epub",
     url |-> PyStr("https://www.gutenberg.org/ebooks/2701.epub3.images"),
     gutenberg_id |-> PyInt(2701), note |-> PyStr("whaling")]
EmmaBook ==
    [title |-> PyStr("Emma"), author |-> PyStr("Jane Austen"),
     filename |-> "Emma.epub", url |-> PyStr(""),
     gutenberg_id |-> PyInt(158), note |-> Missing]
OrwellBook ==
    [title |-> PyInt(1984), author |-> PyStr("George Orwell"),
     filename |-> "1984.epub", url |-> PyStr("https://example.org/1984.epub"),
     gutenberg_id |-> PyInt(0), note |-> PyStr("")]
FaustBook ==
    [title |-> PyStr("Faust"), author |-> PyStr("Goethe"),
     filename |-> "Faust.epub", url |-> Missing, gutenberg_id |-> Missing,
     note |-> Missing]
BookSamples == <<MobyBook, EmmaBook, OrwellBook, FaustBook>>

\* The books at the chosen positions of BookSamples, in their order there.
RECURSIVE BooksAt(_, _)
BooksAt(positions, i) ==
    IF i > Len(BookSamples) THEN <<>>
    ELSE (IF i \in positions THEN <<BookSamples[i]>> ELSE <<>>) \o BooksAt(positions, i + 1)

\* The texts of the files.  SeaText scores grade 8.7 in the manual tier and
\* holds keywords of two themes; EasyText (sentences like 'I am Sam.') has a
\* raw grade below zero and no keyword; ShortText is too short for the
\* pipeline to analyse it.
SeaText ==
    [id |-> "sea", len |-> 889, terms |-> 11, words |-> 151, rawwords |-> 151,
     syll |-> 242, occ |-> ("the" :> 22 @@ "and" :> 3), kw |-> ("sea" :> 5 @@ "death" :> 2),
     head |-> Edge("x", 889), tail |-> Edge("x", 889)]
EasyText ==
    [id |-> "easy", len |-> 533, terms |-> 44, words |-> 152, rawwords |-> 152,
     syll |-> 152, occ |-> ("and" :> 6), kw |-> <<>>,
     head |-> Edge("x", 533), tail |-> Edge("x", 533)]
ShortText ==
    [id |-> "short", len |-> 239, terms |-> 10, words |-> 50, rawwords |-> 50,
     syll |-> 60, occ |-> ("the" :> 9 @@ "was" :> 10), kw |-> ("sea" :> 10),
     head |-> Edge("x", 239), tail |-> Edge("x", 239)]

\* A file that is an EPUB with a manifest and one content document.
EpubFile(title, author, language, chunk, size) ==
    [pk |-> TRUE, size |-> size, zip |-> TRUE,
     names |-> <<"content.opf", "ch1.xhtml">>,
     entries |->
        ("content.opf" :>
               ManifestEntry(<<Elem("dc:title", title), Elem("dc:creator", author),
                               Elem("dc:language", language)>>, TRUE))
        @@ ("ch1.xhtml" :>
               [readable |-> TRUE, utf8 |-> TRUE, fullpaths |-> <<>>, elems |-> <<>>,
                events |-> <<StartTag("p"), Data(chunk), EndTag("p")>>,
                feed_ok |-> TRUE])]

MobyFile == EpubFile(" Moby Dick ", "Herman Melville", "en-US", SeaText, 20480)
EmmaFile == EpubFile("Emma", "Austen, Jane", "", EasyText, 15616)
ShortFile == EpubFile("Emma", "Jane Austen", "en", ShortText, 12000)
SmallFile == EpubFile("Emma", "Jane Austen", "en", ShortText, 5000)
\* Bytes that start with PK and are no archive, and an HTML error page.
GarbageFile == [pk |-> TRUE, size |-> 15000, zip |-> FALSE, names |-> <<>>, entries |-> <<>>]
HtmlPage == [pk |-> FALSE, size |-> 20000, zip |-> FALSE, names |-> <<>>, entries |-> <<>>]

\* The files a folder may hold before the first run.
PlacedFiles == {MobyFile, ShortFile, GarbageFile}

\* What the primary URL may answer, and a URL of the Internet Archive.
PrimaryResponses ==
    {FetchError, FetchData(HtmlPage), FetchData(MobyFile), FetchData(EmmaFile)}
ArchiveResponses == {FetchData(SmallFile), FetchData(EmmaFile)}

\* The Internet Archive with n items found, each holding a cover and one
\* EPUB, the download URL of the i-th answering answers[i].
IaItem(i) == "item" \o ToString(i)
IaUrl(i) == DownloadUrl(IaItem(i), "book.epub")
HitArchive(answers) ==
    [search |-> SearchDocs([i \in DOMAIN answers |-> [identifier |-> IaItem(i)]]),
     items |-> [identifier \in {IaItem(i) : i \in DOMAIN answers} |->
                   ItemFiles(<<"cover.jpg", "book.epub">>)],
     files |-> [url \in {IaUrl(i) : i \in DOMAIN answers} |->
                   answers[CHOOSE i \in DOMAIN answers : IaUrl(i) = url]]]
\* The Internet Archive not answering the search.
SearchFails == [search |-> FetchError, items |-> <<>>, files |-> <<>>]

\* The states of the Internet Archive in the pipeline.
IaArchives ==
    {SearchFails}
        \cup UNION {{HitArchive(answers) : answers \in [1..n -> ArchiveResponses]} :
                       n \in 0..MaxUrls}

\* The answers that matter to download_book: those of the primary URL when it
\* is fetched, and those of the Internet Archive when it is searched.
PrimaryAnswers(book, disk) ==
    IF book.filename \notin DOMAIN disk /\ Truthy(Get(book, "url", PyStr("")))
    THEN PrimaryResponses ELSE {FetchError}
SearchAnswers(book, disk, primary) ==
    IF /\ book.filename \notin DOMAIN disk
       /\ ~(Truthy(Get(book, "url", PyStr(""))) /\ try_download_url(primary))
       /\ Truthy(Get(book, "gutenberg_id", PyInt(0)))
       /\ PyGreaterZero(Get(book, "gutenberg_id", PyInt(0))) = Ok(TRUE)
    THEN IaArchives ELSE {SearchFails}

\* What the textstat tier may do in a build.
TextstatOutcomes(textstat) ==
    IF textstat THEN {TextstatRaises, PyFloat(-125, 100, 0)}
    ELSE {TextstatUnavailable}

\* The files of the model, and what the inspector returns for each: the
\* metadata of extract_epub_metadata(filepath) and the text of
\* extract_text_from_epub(filepath).
Files == {MobyFile, EmmaFile, ShortFile, SmallFile, GarbageFile, HtmlPage}
Inspection ==
    [file \in Files |->
        [epub_meta |-> extract_epub_metadata(file).value,
         text |-> extract_text_from_epub(file, DefaultMaxChars).value]]

\* What verify_metadata does for each book of the model on each file.
Verification ==
    [book \in Range(BookSamples) |->
        [file \in Files |->
            VerifyOutcome(book.title, book.author, Inspection[file].epub_meta)]]

\* What step 4 can set for each file, by what the textstat tier does.
AnalysisOf ==
    [file \in Files |->
        [ts \in TextstatOutcomes(TRUE) \cup TextstatOutcomes(FALSE) |->
            Analysis(Inspection[file].text, Inspection[file].epub_meta, ts)]]

\* Steps 2 to 4 of process_category on the file at filepath: the results they
\* can leave, or the exception that verify_metadata raises.
Inspected(result, book, file, textstat) ==
    LET sized == [result EXCEPT !.file_exists = PyBool(TRUE),
                                !.file_size_kb = Round1(SizeKb(file))]
        epub_meta == Inspection[file].epub_meta
        named == [sized EXCEPT !.actual_title = epub_meta.title,
                               !.actual_author = epub_meta.author]
        verify == Verification[book][file]
        matched == [named EXCEPT !.title_match = PyBool(verify.value.title_match),
                                 !.author_match = PyBool(verify.value.author_match)]
    IN IF verify.raised THEN {verify}
       ELSE {Ok(r) : r \in UNION {Analysed(matched, AnalysisOf[file][ts]) :
                                      ts \in TextstatOutcomes(textstat)}}

\* Steps 2 to 4 of an iteration of process_category, after its sleep, on the
\* folder as it then is: whether the file is inspected, and the result
\* appended or the exception raised.
InspectOutcomes(result, book, disk, textstat) ==
    {[inspected |-> book.filename \in DOMAIN disk, outcome |-> o] :
        o \in IF book.filename \in DOMAIN disk
              THEN Inspected(result, book, disk[book.filename], textstat)
              ELSE {Ok(result)}}

\* A row of a catalog that the program did not write: one kept by hand for
\* Moby_Dick.epub, complete, without themes, no cell of it being what the
\* program computes for a book of the configuration.
HandRow ==
    [category |-> PyStr("Old Shelf"), folder |-> PyStr("old_shelf"),
     filename |-> PyStr("Moby_Dick.epub"), expected_title |-> PyStr("The Whale"),
     expected_author |-> PyStr("H. Melville"), gutenberg_id |-> PyStr("15"),
     note |-> PyStr("kept by hand"), file_exists |-> PyStr("True"),
     file_size_kb |-> PyStr("512.5"), download_source |-> PyStr("Mirror"),
     download_error |-> PyStr("none"), actual_title |-> PyStr("The Whale"),
     actual_author |-> PyStr("Melville"), title_match |-> PyStr("yes"),
     author_match |-> PyStr("True"), language |-> PyStr("la"),
     grade_level |-> PyStr("5.3"), cefr |-> PyStr("Z9"),
     theme_1 |-> PyStr(""), theme_2 |-> PyStr(""), theme_3 |-> PyStr(""),
     theme_4 |-> PyStr(""), theme_5 |-> PyStr("")]

\* The rows such a catalog may hold: the complete row, with and without
\* themes; rows that are not complete; rows whose numbers are no numbers; a
\* row of a catalog without the size column; a row for a file that is in no
\* configuration.
ForeignRows ==
    {HandRow,
     [HandRow EXCEPT !.theme_1 = PyStr("Whales"), !.theme_3 = PyStr("Ships")],
     [HandRow EXCEPT !.file_exists = PyStr("true")],
     [HandRow EXCEPT !.grade_level = PyStr(""), !.theme_1 = PyStr("Whales")],
     [HandRow EXCEPT !.grade_level = PyStr("n/a")],
     [HandRow EXCEPT !.file_size_kb = PyStr("")],
     [HandRow EXCEPT !.file_size_kb = Missing],
     [HandRow EXCEPT !.filename = PyStr("Gone.epub")]}

PipelineInit ==
    /\ p_books \in {BooksAt(positions, 1) :
                       positions \in {ps \in SUBSET DOMAIN BookSamples : Cardinality(ps) <= MaxBooks}}
    /\ p_textstat \in BOOLEAN
    /\ p_disk \in {<<>>} \cup {(p_books[i].filename :> f) : i \in DOMAIN p_books, f \in PlacedFiles}
    /\ p_csv \in {NoCatalog} \cup {Catalog(<<row>>) : row \in ForeignRows}
    /\ p_origin = IF p_csv.exists THEN "foreign" ELSE "none"
    /\ p_pc = "idle"
    /\ p_runs = 0
    /\ p_force = FALSE
    /\ p_cache = <<>>
    /\ p_results = <<>>
    /\ p_log = <<>>
    /\ p_prior = [catalog |-> NoCatalog, origin |-> "none"]
    /\ p_dl = PyNone
    /\ MatchIdle /\ BandIdle /\ ScoreIdle /\ InspectIdle

\* The book the loop of process_category is at.
CurrentBook == p_books[Len(p_log) + 1]

\* if not force and is_book_complete(cache.get(filename))
ShouldSkip(force, cache, filename) == ~force /\ is_book_complete(CacheGet(cache, filename))

\* main starts a run: process_category reads the configuration and loads the
\* cache.
StartRunWithin(force, runs) ==
    /\ p_pc \in {"idle", "crashed"}
    /\ p_runs < runs
    /\ p_runs' = p_runs + 1
    /\ p_pc' = "loop"
    /\ p_force' = force
    /\ p_cache' = InitialCache(force, p_csv)
    /\ p_results' = <<>>
    /\ p_log' = <<>>
    /\ p_prior' = [catalog |-> p_csv, origin |-> p_origin]
    /\ UNCHANGED <<p_books, p_textstat, p_disk, p_csv, p_origin, p_dl>>
    /\ UNCHANGED <<matchVars, bandVars, scoreVars, inspectVars>>

StartRun(force) == StartRunWithin(force, MaxRuns)

\* The mutant skips the book without appending its cached result.
SkipBookNoRecord ==
    /\ p_pc = "loop"
    /\ Len(p_log) < Len(p_books)
    /\ ShouldSkip(p_force, p_cache, CurrentBook.filename)
    /\ \E cached \in {CachedResult(p_cache[CurrentBook.filename], CurrentBook)} :
          /\ p_log' = Append(p_log, [skipped |-> TRUE, fetched |-> <<>>,
                                     inspected |-> FALSE, raised |-> cached.raised])
          /\ p_results' = p_results
          /\ p_pc' = IF cached.raised THEN "crashed" ELSE "loop"
    /\ UNCHANGED <<p_books, p_textstat, p_disk, p_csv, p_origin, p_runs, p_force, p_cache,
                   p_prior, p_dl>>
    /\ UNCHANGED <<matchVars, bandVars, scoreVars, inspectVars>>

\* One iteration of the loop for a book that is complete in the cache: the
\* result is built from the cached row, unless building it raises, which ends
\* process_category and the run.
SkipBook ==
    /\ p_pc = "loop"
    /\ Len(p_log) < Len(p_books)
    /\ ShouldSkip(p_force, p_cache, CurrentBook.filename)
    /\ \E cached \in {CachedResult(p_cache[CurrentBook.filename], CurrentBook)} :
          /\ p_log' = Append(p_log, [skipped |-> TRUE, fetched |-> <<>>,
                                     inspected |-> FALSE, raised |-> cached.raised])
          /\ p_results' = IF cached.raised THEN p_results ELSE Append(p_results, cached.value)
          /\ p_pc' = IF cached.raised THEN "crashed" ELSE "loop"
    /\ UNCHANGED <<p_books, p_textstat, p_disk, p_csv, p_origin, p_runs, p_force, p_cache,
                   p_prior, p_dl>>
    /\ UNCHANGED <<matchVars, bandVars, scoreVars, inspectVars>>

\* A call of download_book that waits for a server: what the call does once
\* its last request is answered (it returns result or raises it, having
\* written the file 'written', or none), the URLs it requests in order, and
\* the number of them answered so far.
PendingCall(dl, book) ==
    [raised |-> dl.raised, result |-> dl.result, tried |-> dl.tried, fetched |-> dl.fetched,
     written |-> IF ~dl.raised /\ dl.result.downloaded THEN dl.disk[book.filename]
                 ELSE PyNone,
     answered |-> 0]

\* open(filepath, 'wb') and f.write(data) of try_download_url, on the folder
\* as it is when the data has come.
WithWritten(disk, filename, written) ==
    IF written = PyNone THEN disk ELSE (filename :> written) @@ disk

\* The first part of an iteration of the loop for any other book: the result
\* dict is made and download_book is called. What the servers answer to the
\* requests of the call is drawn here; download_book tests for the file and
\* for a source and, unless it returns or raises before any request, waits in
\* urlopen for the first of them.
ProcessBookDownload ==
    /\ p_pc = "loop"
    /\ Len(p_log) < Len(p_books)
    /\ ~ShouldSkip(p_force, p_cache, CurrentBook.filename)
    /\ \E primary \in PrimaryAnswers(CurrentBook, p_disk) :
       \E archive \in SearchAnswers(CurrentBook, p_disk, primary) :
       \E dl \in {download_book(CurrentBook, p_disk, primary, archive)} :
             IF dl.fetched # <<>>
             THEN /\ p_log' = p_log
                  /\ p_pc' = "request"
                  /\ p_dl' = PendingCall(dl, CurrentBook)
             ELSE IF dl.raised
             THEN /\ p_log' = Append(p_log, [skipped |-> FALSE, fetched |-> <<>>,
                                             inspected |-> FALSE, raised |-> TRUE])
                  /\ p_pc' = "crashed"
                  /\ p_dl' = PyNone
             ELSE /\ p_log' = p_log
                  /\ p_pc' = "sleep"
                  /\ p_dl' = [result |-> AfterDownload(FreshResult(CurrentBook), dl.result),
                              fetched |-> <<>>]
    /\ UNCHANGED <<p_books, p_textstat, p_disk, p_csv, p_origin, p_runs, p_force, p_cache,
                   p_results, p_prior>>
    /\ UNCHANGED <<matchVars, bandVars, scoreVars, inspectVars>>

\* The urlopen that download_book waits in returns or raises: the call goes on
\* to its next request and waits again or, after its last, writes the file
\* it downloaded and returns, and the loop waits in time.sleep(0.3), or it
\* raises, which ends process_category and the run.
ProcessBookRequest ==
    /\ p_pc = "request"
    /\ IF p_dl.answered + 1 < Len(p_dl.fetched)
       THEN /\ p_dl' = [p_dl EXCEPT !.answered = @ + 1]
            /\ UNCHANGED <<p_disk, p_pc, p_log>>
       ELSE /\ p_disk' = WithWritten(p_disk, CurrentBook.filename, p_dl.written)
            /\ IF p_dl.raised
               THEN /\ p_log' = Append(p_log, [skipped |-> FALSE, fetched |-> p_dl.fetched,
                                               inspected |-> FALSE, raised |-> TRUE])
                    /\ p_pc' = "crashed"
                    /\ p_dl' = PyNone
               ELSE /\ p_log' = p_log
                    /\ p_pc' = "sleep"
                    /\ p_dl' = [result |-> AfterDownload(FreshResult(CurrentBook),
                                                         p_dl.result),
                                fetched |-> p_dl.fetched]
    /\ UNCHANGED <<p_books, p_textstat, p_csv, p_origin, p_runs, p_force, p_cache, p_results,
                   p_prior>>
    /\ UNCHANGED <<matchVars, bandVars, scoreVars, inspectVars>>

\* The rest of the iteration, after the sleep: the file is looked for in the
\* folder, inspected and analysed, and the result appended.
ProcessBookInspect ==
    /\ p_pc = "sleep"
    /\ \E o \in InspectOutcomes(p_dl.result, CurrentBook, p_disk, p_textstat) :
          /\ p_log' = Append(p_log, [skipped |-> FALSE, fetched |-> p_dl.fetched,
                                     inspected |-> o.inspected,
                                     raised |-> o.outcome.raised])
          /\ p_results' = IF o.outcome.raised THEN p_results
                          ELSE Append(p_results, o.outcome.value)
          /\ p_pc' = IF o.outcome.raised THEN "crashed" ELSE "loop"
    /\ p_dl' = PyNone
    /\ UNCHANGED <<p_books, p_textstat, p_disk, p_csv, p_origin, p_runs, p_force, p_cache,
                   p_prior>>
    /\ UNCHANGED <<matchVars, bandVars, scoreVars, inspectVars>>

\* process_category returns its results and main calls write_csv on them.
FinishRun ==
    /\ p_pc = "loop"
    /\ Len(p_log) = Len(p_books)
    /\ p_csv' = write_csv(p_results, p_csv)
    /\ p_origin' = IF p_results = <<>> THEN p_origin ELSE "written"
    /\ p_pc' = "idle"
    /\ UNCHANGED <<p_books, p_textstat, p_disk, p_runs, p_force, p_cache, p_results, p_log,
                   p_prior, p_dl>>
    /\ UNCHANGED <<matchVars, bandVars, scoreVars, inspectVars>>

PipelineNext ==
    \/ \E force \in BOOLEAN : StartRun(force)
    \/ SkipBook
    \/ ProcessBookDownload
    \/ ProcessBookRequest
    \/ ProcessBookInspect
    \/ FinishRun

SpecPipeline == PipelineInit /\ [][PipelineNext]_vars

\* The rows of the catalog the current run found, and the criterion of the
\* claims on one of them: file_exists is 'True' and grade_level is not empty.
PriorRows == p_prior.catalog.rows
RowComplete(row) ==
    /\ row.file_exists = PyStr("True")
    /\ row.grade_level \notin {PyStr(""), PyNone, Missing}
PriorComplete(filename) ==
    \E j \in DOMAIN PriorRows :
        PriorRows[j].filename = PyStr(filename) /\ RowComplete(PriorRows[j])

\* The fields of a result that the skip branch copies from the cached row.
CopiedFields ==
    {"category", "folder", "expected_title", "expected_author", "gutenberg_id", "note",
     "download_source", "download_error", "actual_title", "actual_author", "language", "cefr"}

\* The result at position i is the cached row of the filename reused: every
\* copied field is the cell of the row, and the themes are its theme cells.
ReusesRow(i) ==
    \E j \in DOMAIN PriorRows :
        /\ PriorRows[j].filename = PyStr(p_books[i].filename)
        /\ \A k \in CopiedFields : PriorRows[j][k] # Missing => p_results[i][k] = PriorRows[j][k]
        /\ Range(p_results[i].themes)
              = {PriorRows[j][ThemeFields[t]].v : t \in DOMAIN ThemeFields} \ {""}

\* The result at position i was made from the configuration and the folder.
MadeAfresh(i) ==
    /\ p_results[i].category = PyStr(Category)
    /\ p_results[i].folder = PyStr(FolderName)
    /\ p_results[i].expected_title = p_books[i].title
    /\ p_results[i].expected_author = p_books[i].author
    /\ p_results[i].gutenberg_id = Get(p_books[i], "gutenberg_id", PyStr(""))
    /\ p_results[i].note = Get(p_books[i], "note", PyStr(""))
    /\ p_results[i].file_exists = PyBool(p_books[i].filename \in DOMAIN p_disk)

\* C1: in an incremental run a book is skipped (its cached row is reused and
\* nothing is downloaded, inspected or analysed for it) if and only if the
\* prior catalog holds a row for its filename whose file_exists is 'True' and
\* whose grade_level is non-empty, whatever its theme fields hold; every other
\* book is reprocessed.
C1_SkipIffComplete ==
    (p_runs > 0 /\ ~p_force) =>
        \A i \in DOMAIN p_log :
            /\ p_log[i].skipped <=> PriorComplete(p_books[i].filename)
            /\ p_log[i].skipped =>
                  /\ p_log[i].fetched = <<>>
                  /\ ~p_log[i].inspected
                  /\ i \in DOMAIN p_results => ReusesRow(i)
            /\ ~p_log[i].skipped =>
                  /\ p_log[i].inspected <=> p_books[i].filename \in DOMAIN p_disk
                  /\ i \in DOMAIN p_results => MadeAfresh(i)

\* C1 witness: an incremental run has ended in which one book was skipped on
\* a complete row without any theme and another book, with no complete row,
\* was fetched from a server.
C1_Witness ==
    /\ p_runs > 0 /\ ~p_force /\ p_pc = "idle"
    /\ \E i \in DOMAIN p_log, j \in DOMAIN p_log :
          /\ p_log[i].skipped
          /\ p_results[i].themes = <<>>
          /\ ~p_log[j].skipped
          /\ p_log[j].fetched # <<>>
          /\ ~PriorComplete(p_books[j].filename)

\* C2: an incremental run followed by write_csv writes, for every complete
\* row that the previous run wrote, a row that is identical in all 23 fields.
C2_RoundTrip ==
    (p_runs > 0 /\ ~p_force /\ p_pc = "idle" /\ p_prior.origin = "written") =>
        \A j \in DOMAIN PriorRows :
            RowComplete(PriorRows[j]) =>
                /\ j \in DOMAIN p_csv.rows
                /\ \A k \in Range(Fieldnames) : p_csv.rows[j][k] = PriorRows[j][k]

\* The cells of HandRow as a result would hold them, had they been read from
\* the catalog.
HoldsHandCell(r) ==
    \/ \E k \in CopiedFields \cup {"file_size_kb", "grade_level"} : CsvCell(r[k]) = HandRow[k].v
    \/ "Whales" \in Range(r.themes)

\* C3: a forced run ignores the prior catalog: the cache is empty, no book is
\* skipped, every book goes through the download, inspection and analysis
\* steps, and no field of a result comes from the catalog.
C3_ForcedIgnoresCatalog ==
    (p_runs > 0 /\ p_force) =>
        /\ p_cache = <<>>
        /\ \A i \in DOMAIN p_log :
              /\ ~p_log[i].skipped
              /\ p_log[i].inspected <=> p_books[i].filename \in DOMAIN p_disk
        /\ \A i \in DOMAIN p_results : MadeAfresh(i) /\ ~HoldsHandCell(p_results[i])

\* C3 witness: a forced run has ended whose prior catalog held a complete row
\* for a book of the configuration; the book was fetched again and the row
\* written for it differs from the prior one.
C3_Witness ==
    /\ p_runs > 0 /\ p_force /\ p_pc = "idle"
    /\ \E i \in DOMAIN p_log :
          /\ PriorComplete(p_books[i].filename)
          /\ p_log[i].fetched # <<>>
          /\ p_csv.rows[i].category = PyStr(Category)
          /\ \A j \in DOMAIN PriorRows : p_csv.rows[i] # PriorRows[j]

\* C4: no item aborts the batch: process_category never raises, and a run
\* that has ended has made one result for every book.
C4_NeverAborts ==
    /\ p_pc # "crashed"
    /\ (p_runs > 0 /\ p_pc = "idle") => Len(p_results) = Len(p_books)

\* C13: the results of process_category hold one record per book handled, in
\* the order of the configuration, the i-th record carrying the i-th book's
\* filename, in incremental and in forced mode; when process_category has
\* returned there is exactly one record per book, and none for a cached row
\* whose filename is not in the configuration.
C13_OneRecordPerBook ==
    /\ \A i \in DOMAIN p_results :
          /\ i \in DOMAIN p_books
          /\ p_results[i].filename = PyStr(p_books[i].filename)
    /\ p_pc = "loop" => Len(p_results) = Len(p_log)
    /\ (p_pc = "idle" /\ p_runs > 0) =>
          /\ Len(p_results) = Len(p_books)
          /\ \A j \in DOMAIN PriorRows :
                (\A i \in DOMAIN p_books : PriorRows[j].filename # PyStr(p_books[i].filename))
                    => \A i \in DOMAIN p_results : p_results[i].filename # PriorRows[j].filename

\* C13 witness: an incremental run over two books has returned, the first
\* book skipped from the cache and the second without any source; there are
\* two records, the second with a download error.
C13_Witness ==
    /\ p_pc = "idle" /\ p_runs > 0 /\ ~p_force
    /\ Len(p_books) = 2 /\ Len(p_results) = 2
    /\ p_log[1].skipped
    /\ ~p_log[2].skipped
    /\ p_results[2].download_error # PyNone

\* C13 witness: a forced run has returned one record although the catalog it
\* found held a row for a file that is not in the configuration.
C13_WitnessForeignRow ==
    /\ p_pc = "idle" /\ p_runs > 0 /\ p_force
    /\ Len(p_results) = 1
    /\ \E j \in DOMAIN PriorRows : PriorRows[j].filename = PyStr("Gone.epub")

\* The file inspected for the book of the i-th result (a file in the folder
\* is never replaced), and whether its text is usable: not empty and longer
\* than the pipeline's minimum.
InspectedFile(i) == p_disk[p_books[i].filename]
UsableText(file) ==
    Inspection[file].text # <<>> /\ TextLen(Inspection[file].text) > MinTextChars

\* The i-th result belongs to a book that was processed, whose file is present
\* and whose inspection gave no usable text.
NoUsableText(i) ==
    /\ ~p_log[i].skipped
    /\ p_log[i].inspected
    /\ ~UsableText(InspectedFile(i))

\* C17 (as claimed): when inspection of a present file yields no usable text
\* the matcher, the scorer and the theme detector are all skipped: the
\* record's title_match, author_match, grade_level and cefr are unset and its
\* themes are empty.
C17_ShortCircuitsAllThree ==
    \A i \in DOMAIN p_results :
        NoUsableText(i) =>
            /\ p_results[i].title_match = PyNone
            /\ p_results[i].author_match = PyNone
            /\ p_results[i].grade_level = PyNone
            /\ p_results[i].cefr = PyNone
            /\ p_results[i].themes = <<>>

\* C17 (amended): when inspection of a present file yields no usable text the
\* scorer and the theme detector are skipped, so the record's language,
\* grade_level and cefr remain unset and its themes empty; the matcher has run
\* before the text was extracted, and title_match and author_match are set to
\* booleans.
C17_ShortCircuitsAnalysis ==
    \A i \in DOMAIN p_results :
        NoUsableText(i) =>
            /\ p_results[i].language = PyNone
            /\ p_results[i].grade_level = PyNone
            /\ p_results[i].cefr = PyNone
            /\ p_results[i].themes = <<>>
            /\ p_results[i].title_match.t = "bool"
            /\ p_results[i].author_match.t = "bool"

\* C17 witness: a record for a present EPUB whose text is too short: the
\* title and the author matched, nothing was scored.
C17_Witness ==
    \E i \in DOMAIN p_results :
        /\ NoUsableText(i)
        /\ Inspection[InspectedFile(i)].text # <<>>
        /\ p_results[i].title_match = PyBool(TRUE)
        /\ p_results[i].author_match = PyBool(TRUE)
        /\ p_results[i].grade_level = PyNone

-----------------------------------------------------------------------------
(* Specification of the scorer: one call of calculate_reading_difficulty   *)

\* Lengths of the texts, in characters: the empty text, the longest text that
\* is too short, the shortest that is not, and a longer one.
ScoreLengths == {0, 99, 100, 160}

\* Word counts of the cleaned texts: none, the most the manual tier refuses,
\* the least it accepts, and one whose grade with one sentence and one
\* syllable per word is 4.01.
ScoreWordCounts == {0, 9, 10, 20}

\* A text of the given length and counts, the empty text for length 0.
SizedText(len, terms, words, syll) ==
    IF len = 0 THEN <<>>
    ELSE <<[id |-> "sized", len |-> len, terms |-> terms, words |-> words,
            rawwords |-> IF words = 0 THEN 1 ELSE words, syll |-> syll,
            occ |-> <<>>, kw |-> <<>>,
            head |-> Edge(IF words = 0 THEN "-" ELSE "x", len),
            tail |-> Edge(IF words = 0 THEN "-" ELSE "x", len)]>>

\* What the textstat tier does in the calls: it is absent, it raises, or
\* flesch_kincaid_grade returns -1.25, -0.04, 4.04 or 8.7.
ScoreTextstat ==
    {TextstatUnavailable, TextstatRaises,
     PyFloat(-125, 100, 0), PyFloat(-4, 100, 0), PyFloat(404, 100, 0), PyFloat(87, 10, 0)}

ScoreInputs ==
    {<<[text |-> SizedText(len, st, w, w + x), lang |-> lang, ts |-> ts]>> :
        len \in ScoreLengths, st \in 0..MaxSentences, w \in ScoreWordCounts,
        x \in 0..MaxExtraSyllables, lang \in {PyNone, PyStr("en")}, ts \in ScoreTextstat}

ScoreInit ==
    /\ d_in \in ScoreInputs
    /\ d_out = <<>>
    /\ MatchIdle /\ BandIdle /\ InspectIdle /\ PipelineIdle

ScoreNext == Score

SpecScore == ScoreInit /\ [][ScoreNext]_vars

\* The result is null as a unit: no grade, no band, and a reason that is a
\* non-empty string.
NullUnit(result) ==
    /\ result.grade_level = PyNone
    /\ result.cefr = PyNone
    /\ "error" \in DOMAIN result
    /\ result.error.t = "str" /\ result.error.v # ""

\* The result holds a grade and a band.
Graded(result) == result.grade_level # PyNone /\ result.cefr # PyNone

\* The text of the call is empty or shorter than 100 characters.
TooShort(call) == TextLen(call.text) < 100

\* The cleaned text of the call has fewer than 10 words.
TooFewWords(call) == TextSum(call.text, "words") < 10

\* C11 (as claimed): the result is null as a unit whenever the text is empty
\* or shorter than 100 characters and whenever the cleaned text has fewer than
\* 10 words; in every other case it holds a grade and a band.
C11_NullWhenTooSmall ==
    Len(d_out) = 1 =>
        IF TooShort(d_in[1]) \/ TooFewWords(d_in[1])
        THEN NullUnit(d_out[1]) ELSE Graded(d_out[1])

\* C11 (amended): the result is null as a unit whenever the text is empty or
\* shorter than 100 characters, and whenever the textstat tier gives no grade
\* (textstat is absent or raises) and the cleaned text has fewer than 10
\* words; in every other case it holds a grade and a band.
C11_NullWhenTooSmallForTier ==
    Len(d_out) = 1 =>
        IF TooShort(d_in[1]) \/ (d_in[1].ts.t # "float" /\ TooFewWords(d_in[1]))
        THEN NullUnit(d_out[1]) ELSE Graded(d_out[1])

\* C11 witness: textstat raised on a text of 100 characters and 9 words, and
\* the manual tier answered 'Not enough words'.
C11_Witness ==
    /\ Len(d_out) = 1
    /\ d_in[1].ts = TextstatRaises
    /\ TextLen(d_in[1].text) = 100
    /\ TextSum(d_in[1].text, "words") = 9
    /\ d_out[1].error = PyStr("Not enough words")

\* C20: in every result with a grade_level the cefr band is grade_to_cefr of
\* the grade_level reported (clamped and rounded to one decimal), for every
\* raw grade, also just above a band boundary and below zero.
C20_BandOfReportedGrade ==
    Len(d_out) = 1 =>
        (d_out[1].grade_level # PyNone
            => d_out[1].cefr = grade_to_cefr(d_out[1].grade_level))

-----------------------------------------------------------------------------
(* Specification of the theme detector: one call of detect_themes          *)

\* Most matches of one keyword in a text given to the theme detector.
MaxKeywordHits == 2

\* The keywords the texts hold: 'soul' is a keyword of two English themes,
\* 'wild' of the theme nature in English and in German, 'love' and 'war' of
\* one English theme each.
ThemeProbeWords == <<"soul", "love", "wild", "war">>

\* re.sub(r'[^\w\s.!?]', '', text) of the manual tier.
RECURSIVE CleanForScore(_)
CleanForScore(s) ==
    IF s = "" THEN ""
    ELSE IF IsWordChar(Head(s)) \/ IsSpace(Head(s)) \/ Head(s) \in {".", "!", "?"}
         THEN Head(s) \o CleanForScore(Tail(s))
         ELSE CleanForScore(Tail(s))

\* len(re.findall(r'[.!?]+', s)), in_run telling that the character before
\* was one of them.
RECURSIVE TerminatorRuns(_, _)
TerminatorRuns(s, in_run) ==
    IF s = "" THEN 0
    ELSE LET terminator == Head(s) \in {".", "!", "?"}
         IN (IF terminator /\ ~in_run THEN 1 ELSE 0) + TerminatorRuns(Tail(s), terminator)

\* The vowels of count_syllables (those of the alphabet).
Vowels == "aeiouyäöüáéíóúàèìòùâêîôûæ"
RECURSIVE VowelRuns(_, _)
VowelRuns(word, prev_vowel) ==
    IF word = "" THEN 0
    ELSE LET is_vowel == IndexOf(Head(word), Vowels) > 0
         IN (IF is_vowel /\ ~prev_vowel THEN 1 ELSE 0) + VowelRuns(Tail(word), is_vowel)

\* lang_map.get(lang, 'en_US') of count_syllables.
LangDictionary(lang) ==
    CASE lang = "en" -> "en_US"
      [] lang = "de" -> "de_DE"
      [] lang = "es" -> "es_ES"
      [] lang = "fr" -> "fr_FR"
      [] OTHER -> "en_US"

\* The module pyphen as the build has it: NoPyphen when its import failed
\* (PYPHEN_AVAILABLE false), otherwise, for the dictionaries and the words it
\* is asked, what pyphen.Pyphen(lang=dictionary).inserted(word) does: it
\* returns the word with hyphens put in, or one of the two raises.
NoPyphen == [available |-> FALSE]
Pyphen(inserted) == [available |-> TRUE, inserted |-> inserted]

\* count_syllables(word, lang): with pyphen, the number of parts that the
\* hyphens of the word's hyphenation separate; without it, or when it raises,
\* the runs of vowels of the lowercased word, at least 1.
count_syllables(word, lang, pyphen) ==
    IF pyphen.available /\ ~pyphen.inserted[<<LangDictionary(lang), word>>].raised
    THEN Cardinality({i \in 1..Len(pyphen.inserted[<<LangDictionary(lang), word>>].value) :
                         Char(pyphen.inserted[<<LangDictionary(lang), word>>].value, i) = "-"})
             + 1
    ELSE IF VowelRuns(Lower(word), FALSE) > 1 THEN VowelRuns(Lower(word), FALSE) ELSE 1

\* sum(count_syllables(w, lang) for w in words)
RECURSIVE SumSyllables(_, _, _)
SumSyllables(words, lang, pyphen) ==
    IF words = <<>> THEN 0
    ELSE count_syllables(Head(words), lang, pyphen) + SumSyllables(Tail(words), lang, pyphen)

\* The marker words of lang_markers and the keywords of THEME_KEYWORDS.
AllMarkers == UNION {Range(LangMarkers[lang]) : lang \in DOMAIN LangMarkers}
AllKeywords ==
    UNION {Range(THEME_KEYWORDS[lang][theme]) :
              lang \in DOMAIN THEME_KEYWORDS, theme \in Range(ThemeOrder)}

\* The chunk that is the string s, which neither begins nor ends with
\* whitespace, in a build without pyphen.
Piece(s) ==
    LET lower == Lower(s)
        clean == CleanForScore(s)
    IN [id |-> s, len |-> Len(s), terms |-> TerminatorRuns(clean, FALSE),
        words |-> Len(Split(clean)), rawwords |-> Len(Split(s)),
        syll |-> SumSyllables(Split(clean), "en", NoPyphen),
        occ |-> [w \in {m \in AllMarkers : Matches(lower, " " \o m \o " ", FALSE) > 0} |->
                    Matches(lower, " " \o w \o " ", FALSE)],
        kw |-> [w \in {k \in AllKeywords : Matches(lower, k, TRUE) > 0} |->
                   Matches(lower, w, TRUE)],
        head |-> SubSeq(lower, 1, Min(Len(s), EdgeLen)),
        tail |-> SubSeq(lower, (IF Len(s) <= EdgeLen THEN 0 ELSE Len(s) - EdgeLen) + 1,
                        Len(s))]

\* ' '.join(parts) for a list of such strings.
JoinedPieces(parts) ==
    JoinTexts([i \in DOMAIN parts |-> IF parts[i] = "" THEN <<>> ELSE <<Piece(parts[i])>>])

\* Lists of text parts in which a keyword lies across the parts.
ThemeParts ==
    {<<"Growing", "up">>, <<"a rite", "of", "passage!">>, <<"coming of", "age">>,
     <<"(growing", "upward", "love">>, <<"War and", "Peace">>}

\* Word counts of the texts: with 10000 words one match scores exactly 1.0,
\* with 10001 words just below, and two matches score 1.0 with 20000.
ThemeWordCounts == {10000, 10001, 20000}

\* A text with hits[i] matches of the i-th probe word, the marker words of
\* occ and so many words.
ThemedText(hits, occ, words) ==
    <<[id |-> "themed", len |-> 6 * words, terms |-> 1, words |-> words,
       rawwords |-> words, syll |-> words, occ |-> occ,
       kw |-> [w \in Range(ThemeProbeWords) |->
                  hits[CHOOSE i \in DOMAIN ThemeProbeWords : ThemeProbeWords[i] = w]],
       head |-> Edge("x", 6 * words), tail |-> Edge("x", 6 * words)]>>

ThemeInputs ==
    {<<[text |-> <<>>, lang |-> PyStr("en"), top_n |-> 5]>>}
    \cup
    {<<[text |-> ThemedText(hits, occ, words), lang |-> lang, top_n |-> top_n]>> :
        hits \in [DOMAIN ThemeProbeWords -> 0..MaxKeywordHits],
        occ \in {<<>>}, words \in ThemeWordCounts,
        lang \in {PyStr("en"), PyStr("de"), PyStr("it")}, top_n \in {1, 2, 5}}
    \cup
    {<<[text |-> ThemedText(hits, occ, words), lang |-> PyNone, top_n |-> top_n]>> :
        hits \in [DOMAIN ThemeProbeWords -> 0..MaxKeywordHits],
        occ \in {<<>>, ("the" :> 3)}, words \in ThemeWordCounts, top_n \in {1, 2, 5}}
    \cup
    {<<[text |-> JoinedPieces(parts), lang |-> lang, top_n |-> top_n]>> :
        parts \in ThemeParts, lang \in {PyNone, PyStr("en")}, top_n \in {1, 5}}

ThemeInit ==
    /\ d_in \in ThemeInputs
    /\ d_out = <<>>
    /\ MatchIdle /\ BandIdle /\ InspectIdle /\ PipelineIdle

\* detect_themes(text, lang, top_n) returns.
DetectThemes ==
    /\ d_out = <<>>
    /\ d_out' = <<detect_themes(d_in[1].text, d_in[1].lang, d_in[1].top_n)>>
    /\ UNCHANGED <<d_in, matchVars, bandVars, inspectVars, pipelineVars>>

ThemeNext == DetectThemes

SpecThemes == ThemeInit /\ [][ThemeNext]_vars

\* The taxonomy the call counts with: that of the language given or detected,
\* the English one for a language without taxonomy.
CallTaxonomy(call) ==
    LET lg == IF Truthy(call.lang) THEN call.lang.v ELSE detect_language(call.text)
    IN IF lg \in DOMAIN THEME_KEYWORDS THEN THEME_KEYWORDS[lg] ELSE THEME_KEYWORDS["en"]

\* The keyword counts of the call, by position of the theme in the taxonomy.
ThemeCounts(call) ==
    LET taxonomy == CallTaxonomy(call)
    IN [i \in DOMAIN ThemeOrder |-> KeywordMatches(call.text, taxonomy[ThemeOrder[i]])]

\* The themes of a non-zero count that come before theme i when ordered by
\* score descending, ties in declaration order (the scores of one text order
\* as the counts do).
RankedBefore(count, i) ==
    {j \in DOMAIN ThemeOrder :
        /\ count[j] > 0
        /\ \/ count[j] > count[i]
           \/ count[j] = count[i] /\ j < i}

\* The themes the claim retains: of a non-zero count, among the first top_n,
\* and of a normalized score count / word_count * 10000 >= 1.
Retained(count, top_n, word_count) ==
    {i \in DOMAIN ThemeOrder :
        /\ count[i] > 0
        /\ Cardinality(RankedBefore(count, i)) < top_n
        /\ count[i] * 10000 >= word_count}

\* C12: detect_themes returns the display labels of exactly the themes that
\* are among the first top_n by normalized score descending, ties in
\* declaration order, and score >= 1.0, in that order; at most top_n labels;
\* the empty list for empty text or when no keyword occurs.
C12_ThemeRanking ==
    Len(d_out) = 1 =>
        LET call == d_in[1]
            labels == d_out[1]
            count == ThemeCounts(call)
            retained == Retained(count, call.top_n, TextSum(call.text, "rawwords"))
        IN IF call.text = <<>> THEN labels = <<>>
           ELSE /\ Len(labels) = Cardinality(retained)
                /\ Len(labels) <= call.top_n
                /\ \A i \in retained :
                      labels[1 + Cardinality(RankedBefore(count, i) \cap retained)]
                          = THEME_LABELS[ThemeOrder[i]]
                /\ (\A i \in DOMAIN ThemeOrder : count[i] = 0) => labels = <<>>

\* C12 witness: a text of 10000 words with two matches of 'war' and one of
\* 'soul', top_n = 2: War & Conflict comes first, then the first of the two
\* tied themes of 'soul' at a score of exactly 1.0; the other is cut.
C12_Witness ==
    /\ Len(d_out) = 1
    /\ d_in[1].top_n = 2
    /\ TextSum(d_in[1].text, "rawwords") = 10000
    /\ d_out[1] = <<"War & Conflict", "Self-Discovery">>

-----------------------------------------------------------------------------
(* Specification of the language detector: one call of detect_language     *)

\* Most occurrences of one marker word in a text given to the detector.
MaxMarkerHits == 2

\* The marker words the texts hold: two German ones, 'la' (Spanish and
\* French), one French one and two English ones.
LangProbeWords == <<"der", "die", "la", "le", "the", "and">>

\* A text with hits[i] occurrences of ' w ' for the i-th probe word w.
MarkedText(hits) ==
    <<[id |-> "marked", len |-> 600, terms |-> 5, words |-> 100, rawwords |-> 100,
       syll |-> 150,
       occ |-> [w \in Range(LangProbeWords) |->
                   hits[CHOOSE i \in DOMAIN LangProbeWords : LangProbeWords[i] = w]],
       kw |-> <<>>, head |-> Edge("x", 600), tail |-> Edge("x", 600)]>>

\* Lists of text parts in which marker words lie at the ends of parts.
LangParts ==
    {<<"It was", "the sea">>, <<"der", "die", "das">>, <<"Und", "la", "le", "est">>,
     <<"que", "", "la", "vida">>, <<"the. And", "is">>}

LangInputs ==
    {<<[text |-> MarkedText(hits)]>> : hits \in [DOMAIN LangProbeWords -> 0..MaxMarkerHits]}
        \cup {<<[text |-> JoinedPieces(parts)]>> : parts \in LangParts}

LangInit ==
    /\ d_in \in LangInputs
    /\ d_out = <<>>
    /\ MatchIdle /\ BandIdle /\ InspectIdle /\ PipelineIdle

\* detect_language(text) returns.
DetectLanguage ==
    /\ d_out = <<>>
    /\ d_out' = <<detect_language(d_in[1].text)>>
    /\ UNCHANGED <<d_in, matchVars, bandVars, inspectVars, pipelineVars>>

LangNext == DetectLanguage

SpecLang == LangInit /\ [][LangNext]_vars

\* The total number of occurrences of the marker words of a language.
TotalOccurrences(text, lang) == OccSum(text, LangMarkers[lang])

\* The number of marker words of a language that occur at least once.
MarkersPresent(text, lang) ==
    Cardinality({i \in DOMAIN LangMarkers[lang] : Occ(text, LangMarkers[lang][i]) >= 1})

\* The position of a language in the order de, es, fr, en.
LangRank(lang) == CHOOSE i \in DOMAIN LangOrder : LangOrder[i] = lang

\* C14 (as claimed): detect_language returns the language whose marker words
\* have the highest total number of occurrences, a marker occurring k times
\* adding k, a tie going to the earliest of de, es, fr, en.
C14_HighestTotalCount ==
    Len(d_out) = 1 =>
        \A other \in Range(LangOrder) :
            \/ TotalOccurrences(d_in[1].text, other) < TotalOccurrences(d_in[1].text, d_out[1])
            \/ /\ TotalOccurrences(d_in[1].text, other) = TotalOccurrences(d_in[1].text, d_out[1])
               /\ LangRank(d_out[1]) <= LangRank(other)

\* C14 (amended): detect_language returns the language with the most marker
\* words that occur in the text, a marker adding 1 however often it occurs, a
\* tie going to the earliest of de, es, fr, en.
C14_MostMarkersPresent ==
    Len(d_out) = 1 =>
        \A other \in Range(LangOrder) :
            \/ MarkersPresent(d_in[1].text, other) < MarkersPresent(d_in[1].text, d_out[1])
            \/ /\ MarkersPresent(d_in[1].text, other) = MarkersPresent(d_in[1].text, d_out[1])
               /\ LangRank(d_out[1]) <= LangRank(other)

\* C14 witness: 'the' occurs twice and 'der' and 'die' once each; the text is
\* taken for German, with two markers present against one.
C14_Witness ==
    /\ Len(d_out) = 1
    /\ Occ(d_in[1].text, "the") = 2 /\ Occ(d_in[1].text, "and") = 0
    /\ Occ(d_in[1].text, "der") = 1 /\ Occ(d_in[1].text, "die") = 1
    /\ Occ(d_in[1].text, "la") = 0 /\ Occ(d_in[1].text, "le") = 0
    /\ d_out[1] = "de"

\* C14 witness of the tie: 'la' alone occurs, a marker of Spanish and of
\* French, and the text is taken for Spanish.
C14_WitnessTie ==
    /\ Len(d_out) = 1
    /\ Occ(d_in[1].text, "la") = 1
    /\ \A w \in Range(LangProbeWords) \ {"la"} : Occ(d_in[1].text, w) = 0
    /\ d_out[1] = "es"

-----------------------------------------------------------------------------
(* Specification of the markup stripper: HTMLTextExtractor fed with one    *)
(* document                                                                *)

\* Most nodes (tags and text nodes) of a document given to the stripper.
MaxNodes == 4

\* The nodes of a document: the start and the end tag of head, style and p, a
\* meta tag without closing tag, a self-closing meta tag, and a text node (a
\* comment lies between two text nodes in a row).
NodeKinds == {"head", "/head", "style", "/style", "p", "/p", "meta", "meta/", "text"}

\* The elements that are open after the nodes of a document, innermost last;
\* a meta tag is a void element and opens nothing, and what follows the start
\* tag of style is raw text up to the next end tag of style: no node of it is
\* a tag.
RECURSIVE OpenElements(_)
OpenElements(nodes) ==
    IF nodes = <<>> THEN <<>>
    ELSE LET before == OpenElements(SubSeq(nodes, 1, Len(nodes) - 1))
             node == nodes[Len(nodes)]
         IN IF before # <<>> /\ before[Len(before)] = "style"
            THEN (IF node = "/style" THEN SubSeq(before, 1, Len(before) - 1) ELSE before)
            ELSE IF node \in {"head", "style", "p"} THEN Append(before, node)
            ELSE IF node \in {"/head", "/style", "/p"}
                 THEN SubSeq(before, 1, Len(before) - 1)
            ELSE before

\* Every end tag of the document closes the innermost open element, unless
\* it is raw text of a style element.
WellNested(nodes) ==
    \A k \in DOMAIN nodes :
        nodes[k] \in {"/head", "/style", "/p"} =>
            LET before == OpenElements(SubSeq(nodes, 1, k - 1))
            IN /\ before # <<>>
               /\ \/ "/" \o before[Len(before)] = nodes[k]
                  \/ before[Len(before)] = "style"

RECURSIVE NodeSeqs(_)
NodeSeqs(n) ==
    IF n = 0 THEN {<<>>}
    ELSE NodeSeqs(n - 1)
             \cup {Append(nodes, node) : nodes \in {ns \in NodeSeqs(n - 1) : Len(ns) = n - 1},
                                         node \in NodeKinds}

\* The markup of the nodes from position a to position b, every text node
\* being five characters.
RECURSIVE Markup(_, _, _)
Markup(nodes, a, b) ==
    IF a > b THEN ""
    ELSE (CASE nodes[a] = "text" -> "xxxx."
            [] nodes[a] = "meta/" -> "<meta/>"
            [] OTHER -> "<" \o nodes[a] \o ">")
         \o Markup(nodes, a + 1, b)

\* The position of the first end tag of style from position k on, 0 without
\* one.
StyleEnd(nodes, k) ==
    IF \E j \in k..Len(nodes) : nodes[j] = "/style"
    THEN CHOOSE j \in k..Len(nodes) :
             nodes[j] = "/style" /\ \A i \in k..(j - 1) : nodes[i] # "/style"
    ELSE 0

\* The calls HTMLParser.feed makes for the nodes from position k on: a
\* self-closing tag gives handle_starttag and handle_endtag, the text node at
\* position k gives handle_data with the text numbered k.  After the start
\* tag of style the parser looks for the end tag of style alone: finding it,
\* it gives the markup in between to handle_data as it is; not finding it, it
\* makes no call any more.
RECURSIVE ParserCalls(_, _)
ParserCalls(nodes, k) ==
    IF k > Len(nodes) THEN <<>>
    ELSE IF nodes[k] = "style"
    THEN LET j == StyleEnd(nodes, k + 1)
         IN IF j = 0 THEN <<StartTag("style")>>
            ELSE <<StartTag("style")>>
                     \o (IF j = k + 1 THEN <<>>
                         ELSE <<Data([Piece(Markup(nodes, k + 1, j - 1)) EXCEPT
                                         !.id = ToString(k + 1) \o "-" \o ToString(j - 1)])>>)
                     \o <<EndTag("style")>> \o ParserCalls(nodes, j + 1)
    ELSE (CASE nodes[k] = "text" -> <<Data(MkChunk(ToString(k), 5, 1))>>
            [] nodes[k] = "meta" -> <<StartTag("meta")>>
            [] nodes[k] = "meta/" -> <<StartTag("meta"), EndTag("meta")>>
            [] nodes[k] \in {"/head", "/style", "/p"} -> <<EndTag(Tail(nodes[k]))>>
            [] OTHER -> <<StartTag(nodes[k])>>)
         \o ParserCalls(nodes, k + 1)

MarkupInit ==
    /\ i_in \in {[nodes |-> nodes, events |-> ParserCalls(nodes, 1)] :
                    nodes \in {ns \in NodeSeqs(MaxNodes) : WellNested(ns)}}
    /\ i_meta = PyNone
    /\ i_text = PyNone
    /\ MatchIdle /\ BandIdle /\ ScoreIdle /\ PipelineIdle

\* extractor.feed(content) and extractor.get_text() on the document.
StripMarkup ==
    /\ i_text = PyNone
    /\ i_text' = Ok(HTMLText(i_in.events))
    /\ UNCHANGED <<i_in, i_meta, matchVars, bandVars, scoreVars, pipelineVars>>

MarkupNext == StripMarkup

SpecMarkup == MarkupInit /\ [][MarkupNext]_vars

\* The text node at position k lies inside a script, style, head, meta or link
\* element: one of the elements open at k is one of these.
InsideSkipped(nodes, k) ==
    \E j \in DOMAIN OpenElements(SubSeq(nodes, 1, k - 1)) :
        OpenElements(SubSeq(nodes, 1, k - 1))[j] \in skip_tags

\* C15: a text node contributes to the extracted text if and only if it is
\* not inside a script, style, head, meta or link element; text inside head is
\* dropped also after a style element nested in head has closed, and text of
\* an ordinary element is kept also after a meta tag without closing tag.
C15_TextIffOutsideSkipped ==
    i_text # PyNone =>
        \A k \in DOMAIN i_in.nodes :
            i_in.nodes[k] = "text" =>
                (ToString(k) \in ChunkIds(i_text.value) <=> ~InsideSkipped(i_in.nodes, k))

-----------------------------------------------------------------------------
(* Specification of the table-of-contents exclusion: the inspector on      *)
(* archives whose documents differ in their names                          *)

\* The entry names of the documents: with 'toc' in lower case, in upper case
\* and in mixed case, as a word and within a word, and without it.
TocNames == <<"toc.xhtml", "TOC.xhtml", "stoCk.xhtml", "nav-Toc.htm", "ch1.xhtml", "tic.html">>

TocArchive(present) ==
    LET entries == [n \in {TocNames[i] : i \in present} |-> DocumentEntry(n, TRUE, TRUE)]
    IN [zip |-> TRUE, names |-> NamesOf(TocNames, entries), entries |-> entries]

TocInit ==
    /\ i_in \in {TocArchive(present) : present \in SUBSET DOMAIN TocNames}
    /\ i_meta = PyNone
    /\ i_text = PyNone
    /\ MatchIdle /\ BandIdle /\ ScoreIdle /\ PipelineIdle

SpecToc == TocInit /\ [][InspectNext]_vars

\* The text of the document named n is in the text extracted.
Extracted(n) == (n \o "#body") \in ChunkIds(i_text.value)

\* C16 (as claimed): a content document is excluded exactly when its entry
\* name contains the lowercase substring "toc"; TOC.xhtml is not excluded.
C16_CaseSensitiveToc ==
    i_text # PyNone =>
        \A n \in DOMAIN i_in.entries : ~Extracted(n) <=> IsSubstr("toc", n)

\* C16 (amended): a content document is excluded exactly when its entry name
\* contains "toc" in any mix of upper and lower case (the check is made on the
\* lowercased name); TOC.xhtml and stoCk.xhtml are excluded.
C16_CaseInsensitiveToc ==
    i_text # PyNone =>
        \A n \in DOMAIN i_in.entries :
            ~Extracted(n) <=>
                \E i \in 1..(Len(n) - 2) :
                    /\ Char(n, i) \in {"t", "T"}
                    /\ Char(n, i + 1) \in {"o", "O"}
                    /\ Char(n, i + 2) \in {"c", "C"}

\* C16 witness: of an archive holding TOC.xhtml, stoCk.xhtml and ch1.xhtml
\* the text of ch1.xhtml alone was extracted.
C16_Witness ==
    /\ i_text # PyNone
    /\ {"TOC.xhtml", "stoCk.xhtml", "ch1.xhtml"} \subseteq DOMAIN i_in.entries
    /\ Extracted("ch1.xhtml")
    /\ ~Extracted("TOC.xhtml") /\ ~Extracted("stoCk.xhtml")

-----------------------------------------------------------------------------
(* Specification of the character cap: extract_text_from_epub with a       *)
(* max_chars that the documents of the archive reach                       *)

\* The entry names of the documents, in the order of the archive; sorted()
\* puts them in the order B.htm, a.html, c.xhtml, d.html.
CapNames == <<"c.xhtml", "a.html", "B.htm", "d.html">>
CapCount == Min(MaxDocs, Len(CapNames))

\* What a document is: absent, unreadable, or a text of 0, 4 or 5 characters.
CapTextLen == ("empty" :> 0 @@ "four" :> 4 @@ "five" :> 5)
CapDocStates == {"absent", "unreadable"} \cup DOMAIN CapTextLen

\* The values of max_chars.
CapValues == {0, 5, 9, 10}

\* A document whose body is one text node of so many characters (none when
\* empty), the text being known by the name of its document.
CapEntry(name, state) ==
    [readable |-> state # "unreadable", utf8 |-> TRUE, fullpaths |-> <<>>, elems |-> <<>>,
     events |-> IF state \in {"unreadable", "empty"} THEN <<StartTag("p"), EndTag("p")>>
                ELSE <<StartTag("p"), Data(MkChunk(name, CapTextLen[state], 1)), EndTag("p")>>,
     feed_ok |-> TRUE]

CapArchive(states, max_chars) ==
    LET entries == [n \in {CapNames[i] : i \in {j \in 1..CapCount : states[j] # "absent"}} |->
                       CapEntry(n, states[CHOOSE i \in 1..CapCount : CapNames[i] = n])]
    IN [zip |-> TRUE, names |-> NamesOf(CapNames, entries), entries |-> entries,
        max_chars |-> max_chars]

CapInit ==
    /\ i_in \in {CapArchive(states, max_chars) :
                    states \in [1..CapCount -> CapDocStates], max_chars \in CapValues}
    /\ i_meta = PyNone
    /\ i_text = PyNone
    /\ MatchIdle /\ BandIdle /\ ScoreIdle /\ PipelineIdle

\* extract_text_from_epub(epub_path, max_chars) is called and ends.
InspectTextCapped ==
    /\ i_text = PyNone
    /\ i_text' = extract_text_from_epub(i_in, i_in.max_chars)
    /\ UNCHANGED <<i_in, i_meta, matchVars, bandVars, scoreVars, pipelineVars>>

CapNext == InspectTextCapped

SpecCap == CapInit /\ [][CapNext]_vars

\* The length of the text of a readable document of the archive.
DocLen(n) == TextLen(HTMLText(i_in.entries[n].events))

RECURSIVE SumDocLen(_)
SumDocLen(names) ==
    IF names = {} THEN 0
    ELSE LET n == CHOOSE m \in names : TRUE IN DocLen(n) + SumDocLen(names \ {n})

\* The documents that can be read, and of these the ones the claim has read:
\* those before which, in ascending order of entry name, the accumulated
\* character count of the texts read has not reached max_chars.
Readable == {n \in DOMAIN i_in.entries : i_in.entries[n].readable}
ReadBefore(n) == {m \in Readable : StrLess(m, n)}
DocsRead == {n \in Readable : SumDocLen(ReadBefore(n)) < i_in.max_chars}
LastRead == CHOOSE n \in DocsRead : \A m \in DocsRead \ {n} : StrLess(m, n)

\* The text returned holds the texts of the documents read and of no other,
\* in ascending order of entry name.
PrefixInOrder ==
    /\ \A n \in Readable :
          DocLen(n) > 0 => (n \in ChunkIds(i_text.value) <=> n \in DocsRead)
    /\ \A p \in DOMAIN i_text.value, q \in DOMAIN i_text.value :
          (p < q /\ i_text.value[p].id # " " /\ i_text.value[q].id # " ")
              => StrLess(i_text.value[p].id, i_text.value[q].id)

\* C18 (as claimed): the documents are visited in ascending order of entry
\* name, none is read once the accumulated character count has reached
\* max_chars, and the returned text exceeds the cap by at most the text of the
\* last document read.
C18_OvershootWithinLastText ==
    i_text # PyNone =>
        /\ PrefixInOrder
        /\ DocsRead = {} => i_text.value = <<>>
        /\ DocsRead # {} => TextLen(i_text.value) <= i_in.max_chars + DocLen(LastRead)

\* C18 (amended): the documents are visited in ascending order of entry name
\* and none is read once the accumulated character count has reached
\* max_chars; the returned text is the texts of the documents read joined by
\* single spaces, the characters of these texts exceed the cap by less than
\* the text of the last document read, and the joining spaces, one per
\* document read after the first, are not counted against the cap.
C18_OvershootOfTextsRead ==
    i_text # PyNone =>
        /\ PrefixInOrder
        /\ DocsRead = {} => i_text.value = <<>>
        /\ DocsRead # {} =>
              /\ TextLen(i_text.value) = SumDocLen(DocsRead) + Cardinality(DocsRead) - 1
              /\ SumDocLen(DocsRead) < i_in.max_chars + DocLen(LastRead)

\* C18 witness: with max_chars = 9 and texts of 4 and 5 characters in B.htm
\* and a.html the cap is reached exactly and c.xhtml is not read.
C18_Witness ==
    /\ i_text # PyNone
    /\ i_in.max_chars = 9
    /\ DocsRead = {"B.htm", "a.html"}
    /\ "c.xhtml" \in Readable /\ DocLen("c.xhtml") = 5
    /\ TextLen(i_text.value) = 10
    /\ "c.xhtml" \notin ChunkIds(i_text.value)

-----------------------------------------------------------------------------
(* Specification of the download: one call of download_book                *)

\* What a URL may answer to download_book: an error, an HTML page, an EPUB
\* below the minimum size, or an EPUB.
DownloadResponses ==
    {FetchError, FetchData(HtmlPage), FetchData(SmallFile), FetchData(EmmaFile)}

\* The Internet Archive answers a search with two items and fails on the
\* metadata of the first.
MetadataFails ==
    [HitArchive(<<FetchData(EmmaFile), FetchData(SmallFile)>>) EXCEPT
        !.items = (IaItem(2) :> ItemFiles(<<"cover.jpg", "book.epub">>))]
\* An item with three EPUBs, one of them named _lcp.epub, and other files.
LcpArchive ==
    [search |-> SearchDocs(<<[identifier |-> "item1"]>>),
     items |-> ("item1" :> ItemFiles(<<"b.epub", "a_lcp.epub", "notes.txt", "a.epub",
                                        "A.EPUB">>)),
     files |-> (DownloadUrl("item1", "a_lcp.epub") :> FetchData(HtmlPage))
                  @@ (DownloadUrl("item1", "a.epub") :> FetchData(EmmaFile))
                  @@ (DownloadUrl("item1", "b.epub") :> FetchData(EmmaFile))]
\* The second doc of the answer has no identifier.
NoIdentifier ==
    [HitArchive(<<FetchData(SmallFile), FetchData(EmmaFile), FetchData(EmmaFile)>>) EXCEPT
        !.search = SearchDocs(<<[identifier |-> IaItem(1)], [title |-> "Emma"],
                                [identifier |-> IaItem(3)]>>)]
\* Four docs found, the EPUB of the fourth alone being one.
FourDocs ==
    HitArchive(<<FetchData(SmallFile), FetchError, FetchData(HtmlPage), FetchData(EmmaFile)>>)

\* The states of the Internet Archive in the calls.
DownloadArchives ==
    {SearchFails, MetadataFails, LcpArchive, NoIdentifier, FourDocs}
        \cup UNION {{HitArchive(answers) : answers \in [1..n -> DownloadResponses]} :
                       n \in 0..MaxUrls}

\* The books of the calls: those of the configuration, and books whose
\* gutenberg_id is no int.
OddIdBooks ==
    {[b EXCEPT !.gutenberg_id = id] :
        b \in {OrwellBook, FaustBook},
        id \in {PyBool(FALSE), PyBool(TRUE), PyFloat(0, 10, 0), PyStr("15"), PyStr("")}}
DownloadBooks == Range(BookSamples) \cup OddIdBooks

DownloadInit ==
    /\ p_books \in {<<book>> : book \in DownloadBooks}
    /\ p_disk \in {<<>>} \cup {(p_books[1].filename :> f) : f \in PlacedFiles}
    /\ p_pc = "download"
    /\ p_log = <<>>
    /\ p_textstat = FALSE /\ p_csv = NoCatalog /\ p_origin = "none" /\ p_runs = 0
    /\ p_force = FALSE /\ p_cache = <<>> /\ p_results = <<>>
    /\ p_prior = [catalog |-> NoCatalog, origin |-> "none"]
    /\ p_dl = PyNone
    /\ MatchIdle /\ BandIdle /\ ScoreIdle /\ InspectIdle

\* The record of a call once it has returned or raised.
CallRecord(call) ==
    [existed |-> call.existed, primary |-> call.primary, archive |-> call.archive,
     raised |-> call.raised, result |-> call.result, tried |-> call.tried,
     fetched |-> call.fetched]

\* download_book(book, output_dir) is called. What the servers answer to the
\* requests of the call is drawn here; download_book tests for the file and
\* for a source and returns or raises, or waits in urlopen for the first
\* request.
DownloadBook ==
    /\ p_pc = "download"
    /\ \E primary \in DownloadResponses, archive \in DownloadArchives :
       \E dl \in {download_book(p_books[1], p_disk, primary, archive)} :
       \E call \in {PendingCall(dl, p_books[1])
                       @@ [existed |-> p_books[1].filename \in DOMAIN p_disk,
                           primary |-> primary, archive |-> archive]} :
             IF dl.fetched # <<>>
             THEN /\ p_pc' = "request" /\ p_dl' = call /\ p_log' = p_log
             ELSE /\ p_pc' = "done" /\ p_dl' = PyNone /\ p_log' = <<CallRecord(call)>>
    /\ UNCHANGED <<p_books, p_textstat, p_disk, p_csv, p_origin, p_runs, p_force, p_cache,
                   p_results, p_prior>>
    /\ UNCHANGED <<matchVars, bandVars, scoreVars, inspectVars>>

\* The urlopen that download_book waits in returns or raises: the call goes on
\* to its next request and waits again or, after its last, writes the file
\* it downloaded and returns or raises.
DownloadBookRequest ==
    /\ p_pc = "request"
    /\ IF p_dl.answered + 1 < Len(p_dl.fetched)
       THEN /\ p_dl' = [p_dl EXCEPT !.answered = @ + 1]
            /\ UNCHANGED <<p_disk, p_pc, p_log>>
       ELSE /\ p_disk' = WithWritten(p_disk, p_books[1].filename, p_dl.written)
            /\ p_log' = <<CallRecord(p_dl)>>
            /\ p_pc' = "done"
            /\ p_dl' = PyNone
    /\ UNCHANGED <<p_books, p_textstat, p_csv, p_origin, p_runs, p_force, p_cache, p_results,
                   p_prior>>
    /\ UNCHANGED <<matchVars, bandVars, scoreVars, inspectVars>>

DownloadNext == DownloadBook \/ DownloadBookRequest

SpecDownload == DownloadInit /\ [][DownloadNext]_vars

\* The book's primary URL ('' without one) and its gutenberg_id (0 without).
PrimaryUrl == Get(p_books[1], "url", PyStr("")).v
GutenbergId == Get(p_books[1], "gutenberg_id", PyInt(0))

\* The answer has data that starts with 'PK' and is at least min_size long.
ValidEpubData(response) ==
    response.t = "data" /\ response.data.pk /\ response.data.size >= 10000

\* The URLs of the Internet Archive that were tried, in the order tried.
ArchiveTried(call) ==
    SelectSeq(call.tried, LAMBDA url : url # PrimaryUrl)

\* The URLs the search returned in the call, and what a URL answered.
SearchReturned(call) ==
    search_internet_archive(PyFormat(p_books[1].title), PyFormat(p_books[1].author),
                            call.archive).urls
Answered(call, url) ==
    IF url = PrimaryUrl THEN call.primary ELSE FileAnswer(call.archive, url)

\* C19: if the target file exists no URL is fetched; without primary URL and
\* with gutenberg_id 0 no URL is fetched and an error is returned; otherwise
\* the primary URL (when present) is tried first, Internet Archive URLs are
\* tried only when the primary attempt failed or was absent and
\* gutenberg_id > 0, in the order of the search and up to the first success;
\* downloaded = True is returned only after an attempt wrote data starting
\* with 'PK' of at least min_size bytes to the target path.
C19_DownloadOrder ==
    p_pc = "done" =>
        LET call == p_log[1]
            archive == ArchiveTried(call)
            returned == SearchReturned(call)
            last == Len(archive)
            downloaded == ~call.raised /\ call.result.downloaded
        IN /\ call.existed =>
                 /\ call.fetched = <<>> /\ ~call.raised
                 /\ call.result.exists /\ ~call.result.downloaded
           /\ (~call.existed /\ PrimaryUrl = "" /\ PyEqualsZero(GutenbergId)) =>
                 /\ call.fetched = <<>> /\ ~call.raised
                 /\ call.result.error # PyNone
                 /\ ~call.result.downloaded
           /\ (~call.existed /\ PrimaryUrl # "") =>
                 /\ call.fetched # <<>> /\ call.fetched[1] = PrimaryUrl
                 /\ call.tried # <<>> /\ call.tried[1] = PrimaryUrl
           /\ archive # <<>> =>
                 /\ PrimaryUrl = "" \/ ~ValidEpubData(call.primary)
                 /\ PyGreaterZero(GutenbergId) = Ok(TRUE)
                 /\ last <= Len(returned)
                 /\ \A i \in DOMAIN archive :
                       /\ archive[i] = returned[i]
                       /\ i < last => ~ValidEpubData(Answered(call, returned[i]))
                 /\ last < Len(returned) => ValidEpubData(Answered(call, returned[last]))
           /\ downloaded =>
                 /\ call.tried # <<>>
                 /\ LET written == Answered(call, call.tried[Len(call.tried)])
                    IN /\ ValidEpubData(written)
                       /\ p_disk[p_books[1].filename] = written.data
           /\ ~downloaded =>
                 \A url \in Range(call.tried) : ~ValidEpubData(Answered(call, url))

\* C19 witness: the primary URL answered with an HTML page, the first URL of
\* the Internet Archive with an EPUB below the minimum size, the second with
\* an EPUB, which was written to the folder.
C19_Witness ==
    /\ p_pc = "done"
    /\ p_log[1].primary = FetchData(HtmlPage)
    /\ p_log[1].tried = <<PrimaryUrl, IaUrl(1), IaUrl(2)>>
    /\ FileAnswer(p_log[1].archive, IaUrl(1)) = FetchData(SmallFile)
    /\ p_log[1].result.downloaded
    /\ p_log[1].result.source = PyStr("Internet Archive")
    /\ p_disk[p_books[1].filename] = EmmaFile

-----------------------------------------------------------------------------
(* Specification of resumed runs: runs of main on one category as in the   *)
(* pipeline, more of them, with files removed from the folder meanwhile     *)

\* The runs of the program in one behaviour of the resumed pipeline.
MaxResumedRuns == 3

\* The folder without the file of that name.
WithoutFile(disk, filename) ==
    IF DOMAIN disk \ {filename} = {} THEN <<>>
    ELSE [f \in DOMAIN disk \ {filename} |-> disk[f]]

\* A file of the folder is removed, between two runs or while a run waits
\* (in time.sleep or for a server): os.path.exists(filepath) is then false
\* for it.
RemoveFile ==
    /\ p_runs > 0
    /\ \E filename \in DOMAIN p_disk : p_disk' = WithoutFile(p_disk, filename)
    /\ UNCHANGED <<p_books, p_textstat, p_csv, p_origin, p_pc, p_runs, p_force, p_cache,
                   p_results, p_log, p_prior, p_dl>>
    /\ UNCHANGED <<matchVars, bandVars, scoreVars, inspectVars>>

\* The configurations, folders and catalogs of the pipeline in a build without
\* textstat, the catalog being absent or holding a complete row kept by hand.
ResumeInit ==
    /\ PipelineInit
    /\ ~p_textstat
    /\ p_csv \in {NoCatalog, Catalog(<<HandRow>>)}

ResumeNext ==
    \/ \E force \in BOOLEAN : StartRunWithin(force, MaxResumedRuns)
    \/ SkipBook
    \/ ProcessBookDownload
    \/ ProcessBookRequest
    \/ ProcessBookInspect
    \/ FinishRun
    \/ RemoveFile

SpecResume == ResumeInit /\ [][ResumeNext]_vars

\* The catalog file holds a row for the filename, and every row it holds for
\* the filename is complete.
PersistedComplete(filename) ==
    /\ \E j \in DOMAIN p_csv.rows : p_csv.rows[j].filename = PyStr(filename)
    /\ \A j \in DOMAIN p_csv.rows :
          p_csv.rows[j].filename = PyStr(filename) => RowComplete(p_csv.rows[j])

\* In an incremental run over a catalog that a run wrote, a book whose row
\* there is complete is skipped when the loop comes to it, and skipping it
\* raises nothing.
SkippedWhenComplete ==
    (p_runs > 0 /\ ~p_force /\ p_prior.origin = "written") =>
        \A i \in DOMAIN p_log :
            PriorComplete(p_books[i].filename) => p_log[i].skipped /\ ~p_log[i].raised

\* C21: completeness is stable across incremental runs: once a run has written
\* a complete row for a book, no step of a later incremental run and no
\* removal of a file from the folder makes the persisted row incomplete, and
\* in each of these runs the book is skipped, for any number of such runs.
C21_CompletenessStable ==
    [][/\ \A i \in DOMAIN p_books :
             (p_origin = "written" /\ ~p_force' /\ PersistedComplete(p_books[i].filename))
                 => PersistedComplete(p_books[i].filename)'
       /\ SkippedWhenComplete']_vars

\* C21 witness: the third run, the second incremental one in a row, has ended
\* having skipped a book whose row the earlier runs left complete and whose
\* file is no longer in the folder; the row written is still complete.
C21_Witness ==
    /\ p_runs = MaxResumedRuns /\ ~p_force /\ p_pc = "idle"
    /\ p_prior.origin = "written"
    /\ \E i \in DOMAIN p_log :
          /\ PriorComplete(p_books[i].filename)
          /\ p_log[i].skipped
          /\ p_books[i].filename \notin DOMAIN p_disk
          /\ PersistedComplete(p_books[i].filename)
          /\ p_cache[p_books[i].filename].grade_level = PyStr("0.0")

=============================================================================
